---- MODULE Spec2Model ----
(***************************************************************************)
(* A model of the sequence theory solver of src/src/smt/theory_seq.cpp:    *)
(* the final-check cascade, the backtrackable solution map with its        *)
(* normal-form cache, the scoped containers of the theory, and the         *)
(* accept/step unfolding of regular-expression membership.                 *)
(***************************************************************************)
EXTENDS Integers, Sequences, FiniteSets, TLC

VARIABLES
    \* ---- final_check_eh -------------------------------------------------
    fc_pc,              \* 0: no round running; k: rule k of the cascade is next
    fc_attempted,       \* rules called so far in the current / last round
    fc_fired,           \* rules of that round that reported progress
    fc_status,          \* value returned by the last round
    m_new_propagation,
    m_has_seq,
    m_split_w_len,      \* m_params.m_split_w_len
    m_eqs,              \* equation store (ids of pending equations)
    m_ncs,              \* not-contains store
    m_automata,         \* m_automata: TRUE = compiled, FALSE = null pointer
    m_lts,              \* recorded lt/le literals
    m_lts_checked,
    \* ---- solution map m_rep ----------------------------------------------
    m_map,              \* term -> (rhs, dep); NoEntry for an empty slot
    m_updates,          \* trail: m_updates / m_lhs / m_rhs / m_deps
    m_limit,            \* m_limit: trail size at each push
    m_cache,            \* normal-form cache: set of (v, e, d)
    \* ---- SAT context ------------------------------------------------------
    assignment,         \* truth value of each boolean variable
    sat_trail,          \* variables in the order they were assigned
    sat_limit,          \* size of sat_trail at each push
    \* ---- observations -----------------------------------------------------
    lin_ok,             \* the assertion of linearize has held in every call
    lin_deps,           \* linearize has been given a dependency with literals
    rep_snap,           \* content of the map at each open push
    in_model,           \* between init_model and finalize_model
    \* ---- scoped containers of the theory -----------------------------------
    m_nqs,              \* disequation store
    vec_scopes,         \* scoped_vector: content of m_eqs/m_nqs/m_ncs/m_lts per push
    m_exclude,          \* exclusion table: m_table, m_lhs/m_rhs, m_limit
    m_trail_stack,      \* undo records of m_trail_stack
    m_trail_lim,        \* size of m_trail_stack at each push
    m_axioms,           \* axiom queue
    m_axiom_set,
    m_axioms_head,      \* cursor into m_axioms
    m_has_length,
    m_length,
    m_fixed,
    m_s_in_re,          \* membership list: (s, re, active)
    scope_snap,         \* content of the scoped containers at each open push
    \* ---- regular-expression membership -------------------------------------
    re_s,               \* the sequence the model gives to s
    unf_active,         \* m_max_unfolding_lit is set and the scope level is > 0
    m_max_unfolding_depth,
    re_true,            \* accept / step literals assign_eh has been run on
    re_queue,           \* literals made true, assign_eh still to run
    re_clauses,         \* accept literals whose clause is not yet satisfied
    re_conflict,        \* "none" or what the conflict was derived from
    \* ---- search control ----------------------------------------------------
    m_length_limit_map, \* sequence -> recorded length limit; 0 for no entry
    m_is_digit,         \* units solve_itos has asserted to be digits
    th_assumptions,     \* what add_theory_assumptions gave the current search
    op_ret              \* what the last handler returned, threw and emitted

fcVars == <<fc_pc, fc_attempted, fc_fired, fc_status, m_new_propagation,
            m_has_seq, m_split_w_len, m_eqs, m_ncs, m_automata, m_lts,
            m_lts_checked>>

repVars == <<m_map, m_updates, m_limit, m_cache>>
satVars == <<assignment, sat_trail, sat_limit>>
obsVars == <<lin_ok, lin_deps, rep_snap, in_model>>

trailVars == <<m_trail_stack, m_trail_lim, m_axioms, m_axiom_set, m_axioms_head,
               m_has_length, m_length, m_fixed, m_s_in_re>>
scVars == <<m_nqs, vec_scopes, m_exclude, trailVars, scope_snap>>

reVars == <<re_s, unf_active, m_max_unfolding_depth, re_true, re_queue, re_clauses,
            re_conflict>>

resVars == <<m_length_limit_map, m_is_digit, th_assumptions, op_ret>>

vars == <<fcVars, repVars, satVars, obsVars, scVars, reVars, resVars>>

\* ---------------------------------------------------------------------------
\* Bounds of the model
\* ---------------------------------------------------------------------------
MaxStore == 2       \* longest equation / not-contains / lt store, automaton table
MaxScopes == 2      \* deepest nesting of push_scope_eh
MaxTrail == 6       \* longest solution-map trail
MaxLen == 3         \* longest sequence given to s in a membership
MaxDepth == 3       \* largest m_max_unfolding_depth
MaxWork == 3        \* entries in the scoped containers before the last operation
ExpandFuel == 8     \* deepest nesting of expand / find the model follows
SolveFuel == 10     \* most steps of one pass of solve_eqs, most passes of the loop
MaxDigits == 3      \* longest digit sequence given to solve_itos

\* the values of n the literals of solve_itos are evaluated at
MaxItos == 500

\* ---------------------------------------------------------------------------
\* Generic helpers
\* ---------------------------------------------------------------------------
Range(s) == {s[i] : i \in 1..Len(s)}

IsPrefix(s, t) == Len(s) <= Len(t) /\ SubSeq(t, 1, Len(s)) = s

RECURSIVE SeqFilter(_, _)
SeqFilter(s, keep) ==
    IF s = <<>> THEN <<>>
    ELSE (IF Head(s) \in keep THEN <<Head(s)>> ELSE <<>>) \o SeqFilter(Tail(s), keep)

\* ---------------------------------------------------------------------------
\* Terms
\* ---------------------------------------------------------------------------
NullTerm == <<"null">>
Empty == <<"empty">>
VarX == <<"var", "x">>
VarY == <<"var", "y">>
StrAB == <<"str", "ab">>
UnitA == <<"unit", "a">>
UnitB == <<"unit", "b">>
mk_concat(a, b) == <<"concat", a, b>>
mk_ite(c, t, e) == <<"ite", c, t, e>>

is_concat(t) == t[1] = "concat"
is_ite(t) == t[1] = "ite"
is_empty(t) == t[1] = "empty"
is_string(t) == t[1] = "str"
is_unit(t) == t[1] = "unit"

\* theory_seq::is_var: a sequence term that is no concat, empty, string, unit,
\* itos, nth or ite
is_var(t) == t[1] = "var"

BoolVars == {"c1"}
Vars == {VarX, VarY}

\* the terms that can own a slot of the solution map: variables (add_solution,
\* init_model, mk_value) and string constants (add_elim_string_axiom)
Keys == Vars \cup {StrAB}

\* the right-hand sides of the equations the solver is given
RhsTerms ==
    { VarX, VarY, Empty, StrAB, mk_concat(VarY, StrAB), mk_ite("c1", VarY, StrAB) }

\* the terms the solver canonizes
CanonTerms ==
    { VarX, mk_concat(VarX, VarY), mk_ite("c1", VarY, StrAB) }

\* values the sequence factory hands out
FactoryValues == {<<"str", "v">>}

\* literals and dependencies: a dependency is the set of its leaves
Lit(v, sign) == [v |-> v, s |-> sign]
Lits == {Lit(v, sg) : v \in BoolVars, sg \in BOOLEAN}
IsTrue(l) == assignment[l.v] = (IF l.s THEN "true" ELSE "false")
TrueLits == {l \in Lits : IsTrue(l)}

\* ---------------------------------------------------------------------------
\* The rewriter m_rewrite on these terms: drops empty operands of a
\* concatenation and re-associates it to the right
\* ---------------------------------------------------------------------------
RECURSIVE Leaves(_)
Leaves(t) ==
    IF is_concat(t) THEN Leaves(t[2]) \o Leaves(t[3])
    ELSE IF is_empty(t) THEN <<>>
    ELSE <<t>>

RECURSIVE ConcatOf(_)
ConcatOf(ts) ==
    IF ts = <<>> THEN Empty
    ELSE IF Len(ts) = 1 THEN ts[1]
    ELSE mk_concat(Head(ts), ConcatOf(Tail(ts)))

Rewrite(t) == IF is_concat(t) THEN ConcatOf(Leaves(t)) ELSE t

\* ---------------------------------------------------------------------------
\* solution_map
\* ---------------------------------------------------------------------------
NoEntry == [e |-> NullTerm, d |-> {}]

\* solution_map::find(e, value): the slot of e holds an entry
HasEntry(map, e) == e \in DOMAIN map /\ map[e].e # NullTerm

\* solution_map::is_root
is_root(map, e) == ~(e \in DOMAIN map) \/ map[e].e = NullTerm

\* a find that follows the chain and keeps the dependency of its first entry
RECURSIVE FindFirstDep(_, _, _)
FindFirstDep(map, e, fuel) ==
    IF fuel = 0 \/ ~HasEntry(map, e) THEN [e |-> e, d |-> {}]
    ELSE [e |-> FindFirstDep(map, map[e].e, fuel - 1).e, d |-> map[e].d]

\* a find that stops after one step of the chain (find1)
FindOneStep(map, e, fuel) ==
    IF HasEntry(map, e) THEN [e |-> map[e].e, d |-> map[e].d]
    ELSE [e |-> e, d |-> {}]

\* solution_map::find(e, d): follow the chain to its end, joining dependencies
RECURSIVE Find(_, _, _)
Find(map, e, fuel) ==
    IF fuel = 0 \/ ~HasEntry(map, e) THEN [e |-> e, d |-> {}]
    ELSE LET rest == Find(map, map[e].e, fuel - 1)
         IN  [e |-> rest.e, d |-> map[e].d \cup rest.d]

Trail(op, l, r, d) == [op |-> op, l |-> l, r |-> r, d |-> d]

\* solution_map::update without the reset of the cache
RepUpdateKeepCache(rep, e, r, d) ==
    IF e = r THEN rep
    ELSE [rep EXCEPT
            !.map = [rep.map EXCEPT ![e] = [e |-> r, d |-> d]],
            !.updates =
                rep.updates
                \o (IF HasEntry(rep.map, e)
                    THEN <<Trail("DEL", e, rep.map[e].e, rep.map[e].d)>>
                    ELSE <<>>)
                \o <<Trail("INS", e, r, d)>>]

\* solution_map::update without the DEL record of an overwritten entry
RepUpdateNoDel(rep, e, r, d) ==
    IF e = r THEN rep
    ELSE [rep EXCEPT
            !.cache = {},
            !.map = [rep.map EXCEPT ![e] = [e |-> r, d |-> d]],
            !.updates = rep.updates \o <<Trail("INS", e, r, d)>>]

\* solution_map::update without the test e == r
RepUpdateNoSelfTest(rep, e, r, d) ==
    [rep EXCEPT
        !.cache = {},
        !.map = [rep.map EXCEPT ![e] = [e |-> r, d |-> d]],
        !.updates =
            rep.updates
            \o (IF HasEntry(rep.map, e)
                THEN <<Trail("DEL", e, rep.map[e].e, rep.map[e].d)>>
                ELSE <<>>)
            \o <<Trail("INS", e, r, d)>>]

\* solution_map::update
RepUpdate(rep, e, r, d) ==
    IF e = r THEN rep
    ELSE [rep EXCEPT
            !.cache = {},
            !.map = [rep.map EXCEPT ![e] = [e |-> r, d |-> d]],
            !.updates =
                rep.updates
                \o (IF HasEntry(rep.map, e)
                    THEN <<Trail("DEL", e, rep.map[e].e, rep.map[e].d)>>
                    ELSE <<>>)
                \o <<Trail("INS", e, r, d)>>]

\* solution_map::push_scope
RepPushScope(rep) == [rep EXCEPT !.limit = Append(rep.limit, Len(rep.updates))]

\* the loop of pop_scope: undo the trail items i, i-1, ..., start+1
RECURSIVE Undo(_, _, _, _)
Undo(map, updates, i, start) ==
    IF i <= start THEN map
    ELSE LET u == updates[i]
         IN  Undo(IF u.op = "INS"
                  THEN [map EXCEPT ![u.l] = NoEntry]
                  ELSE [map EXCEPT ![u.l] = [e |-> u.r, d |-> u.d]],
                  updates, i - 1, start)

\* an undo loop that re-inserts overwritten entries but leaves the inserted ones
RECURSIVE UndoKeepIns(_, _, _, _)
UndoKeepIns(map, updates, i, start) ==
    IF i <= start THEN map
    ELSE LET u == updates[i]
         IN  UndoKeepIns(IF u.op = "INS"
                         THEN map
                         ELSE [map EXCEPT ![u.l] = [e |-> u.r, d |-> u.d]],
                         updates, i - 1, start)

\* solution_map::pop_scope without the reset of the cache
RepPopScopeKeepCache(rep, n) ==
    IF n = 0 THEN rep
    ELSE LET start == rep.limit[Len(rep.limit) - n + 1]
         IN  [rep EXCEPT
                !.map = Undo(rep.map, rep.updates, Len(rep.updates), start),
                !.updates = SubSeq(rep.updates, 1, start),
                !.limit = SubSeq(rep.limit, 1, Len(rep.limit) - n)]

\* solution_map::pop_scope with the trail undone by UndoKeepIns
RepPopScopeKeepIns(rep, n) ==
    IF n = 0 THEN rep
    ELSE LET start == rep.limit[Len(rep.limit) - n + 1]
         IN  [rep EXCEPT
                !.cache = {},
                !.map = UndoKeepIns(rep.map, rep.updates, Len(rep.updates), start),
                !.updates = SubSeq(rep.updates, 1, start),
                !.limit = SubSeq(rep.limit, 1, Len(rep.limit) - n)]

\* solution_map::pop_scope
RepPopScope(rep, n) ==
    IF n = 0 THEN rep
    ELSE LET start == rep.limit[Len(rep.limit) - n + 1]
         IN  [rep EXCEPT
                !.cache = {},
                !.map = Undo(rep.map, rep.updates, Len(rep.updates), start),
                !.updates = SubSeq(rep.updates, 1, start),
                !.limit = SubSeq(rep.limit, 1, Len(rep.limit) - n)]

\* the solution map as one value, and back into the variables
Rep == [map |-> m_map, updates |-> m_updates, limit |-> m_limit, cache |-> m_cache]

SetRep(rep) ==
    /\ m_map' = rep.map
    /\ m_updates' = rep.updates
    /\ m_limit' = rep.limit
    /\ m_cache' = rep.cache

\* solution_map::find_cache / add_cache
InCache(cache, e) == \E c \in cache : c.v = e
CacheGet(cache, e) == CHOOSE c \in cache : c.v = e
AddCache(cache, v, e, d) == cache \cup {[v |-> v, e |-> e, d |-> d]}

\* ---------------------------------------------------------------------------
\* final_check_eh: the cascade
\* ---------------------------------------------------------------------------

\* a cascade that tries solve_nqs before check_lts
CascadeNqsFirst ==
    << "simplify_and_solve_eqs", "solve_nqs", "check_lts", "check_contains",
       "fixed_length_zero", "len_based_split", "fixed_length",
       "check_int_string", "reduce_length_eq", "branch_unit_variable",
       "branch_binary_variable", "branch_variable", "check_length_coherence",
       "check_extensionality", "branch_nqs" >>

\* The calls of final_check_eh in the order of the if-statements.
Cascade ==
    << "simplify_and_solve_eqs", "check_lts", "solve_nqs", "check_contains",
       "fixed_length_zero", "len_based_split", "fixed_length",
       "check_int_string", "reduce_length_eq", "branch_unit_variable",
       "branch_binary_variable", "branch_variable", "check_length_coherence",
       "check_extensionality", "branch_nqs" >>

Rules == Range(Cascade)

\* position after the last rule: the call of is_solved
IsSolvedPc == Len(Cascade) + 1

\* `m_params.m_split_w_len && len_based_split()`: the call is short-circuited
RuleEnabled(r) == r = "len_based_split" => m_split_w_len

\* a rule reported progress: every rule but check_extensionality returns true
\* for progress; check_extensionality is tested negated
Progress(r, ret) == IF r = "check_extensionality" THEN ~ret ELSE ret

\* `if (rule()) return FC_CONTINUE;` else fall through to the next rule
AlwaysFallThrough(pc, progress) == pc + 1
NextPc(pc, progress) == IF progress THEN 0 ELSE pc + 1

\* theory_seq::is_solved
is_solved_no_ncs ==
    /\ m_eqs = <<>>
    /\ \A i \in 1..Len(m_automata) : m_automata[i]
is_solved ==
    /\ m_eqs = <<>>
    /\ \A i \in 1..Len(m_automata) : m_automata[i]
    /\ m_ncs = <<>>

\* the cascade leaves the solution map, the SAT context and the observations alone
FcFrame == UNCHANGED <<repVars, satVars, obsVars, scVars, reVars>>

\* entry of final_check_eh
FinalCheckBegin ==
    /\ FcFrame
    /\ fc_pc = 0
    /\ fc_attempted' = <<>>
    /\ fc_fired' = {}
    /\ IF ~m_has_seq
       THEN /\ fc_status' = "DONE"
            /\ UNCHANGED <<fc_pc, m_new_propagation>>
       ELSE /\ fc_status' = "RUNNING"
            /\ fc_pc' = 1
            /\ m_new_propagation' = FALSE
    /\ UNCHANGED <<m_has_seq, m_split_w_len, m_eqs, m_ncs, m_automata, m_lts,
                   m_lts_checked>>

\* what the rule at position fc_pc returns, and what it does to the state the
\* cascade itself reads.  prop: the rule propagated or raised a conflict
\* (propagate_lit, set_conflict, propagate_eq set m_new_propagation);
\* incons: the context is inconsistent when the rule returns; ret: the value
\* returned by a rule whose result is not computed from these.
RuleCall(r, prop, incons, ret, solved) ==
    LET np == m_new_propagation \/ prop \/ incons
        result ==
            CASE r \in {"simplify_and_solve_eqs", "check_contains"} -> np \/ incons
              [] r = "check_lts" -> ~(m_lts = <<>> \/ m_lts_checked)
              [] OTHER -> ret
    IN  /\ m_new_propagation' = np
        /\ m_lts_checked' = IF r = "check_lts" /\ result THEN TRUE ELSE m_lts_checked
        /\ m_ncs' = IF r = "check_contains"
                    THEN SeqFilter(m_ncs, Range(m_ncs) \ solved)
                    ELSE m_ncs
        /\ fc_attempted' = Append(fc_attempted, r)
        /\ fc_fired' = IF Progress(r, result) THEN fc_fired \cup {r} ELSE fc_fired
        /\ fc_pc' = NextPc(fc_pc, Progress(r, result))
        /\ fc_status' = IF fc_pc' = 0 THEN "CONTINUE" ELSE fc_status

FinalCheckRule ==
    /\ FcFrame
    /\ fc_pc \in 1..Len(Cascade)
    /\ LET r == Cascade[fc_pc] IN
       IF ~RuleEnabled(r)
       THEN /\ fc_pc' = fc_pc + 1
            /\ UNCHANGED <<fc_attempted, fc_fired, fc_status, m_new_propagation,
                           m_ncs, m_lts_checked>>
       ELSE \E prop \in BOOLEAN, incons \in BOOLEAN, ret \in BOOLEAN,
               solved \in SUBSET Range(m_ncs) :
               /\ r # "check_contains" => solved = {}
               /\ RuleCall(r, prop, incons, ret, solved)
    /\ UNCHANGED <<m_has_seq, m_split_w_len, m_eqs, m_automata, m_lts>>

\* the tail of final_check_eh: is_solved() ? FC_DONE : FC_GIVEUP
FinalCheckEnd ==
    /\ FcFrame
    /\ fc_pc = IsSolvedPc
    /\ fc_pc' = 0
    /\ fc_status' = IF is_solved THEN "DONE" ELSE "GIVEUP"
    /\ fc_attempted' = Append(fc_attempted, "is_solved")
    /\ UNCHANGED <<fc_fired, m_new_propagation, m_has_seq,
                   m_split_w_len, m_eqs, m_ncs, m_automata, m_lts, m_lts_checked>>

\* between rounds the SAT engine feeds the theory
\* new_eq_eh: m_eqs.push_back
FcNewEq ==
    /\ FcFrame
    /\ fc_pc = 0 /\ m_has_seq /\ Len(m_eqs) < MaxStore
    /\ m_eqs' = Append(m_eqs, Len(m_eqs) + 1)
    /\ UNCHANGED <<fc_pc, fc_attempted, fc_fired, fc_status, m_new_propagation,
                   m_has_seq, m_split_w_len, m_ncs, m_automata, m_lts, m_lts_checked>>

\* an equation is solved and leaves the store
FcSolveEq ==
    /\ FcFrame
    /\ fc_pc = 0 /\ m_eqs # <<>>
    /\ m_eqs' = SubSeq(m_eqs, 1, Len(m_eqs) - 1)
    /\ UNCHANGED <<fc_pc, fc_attempted, fc_fired, fc_status, m_new_propagation,
                   m_has_seq, m_split_w_len, m_ncs, m_automata, m_lts, m_lts_checked>>

\* assign_eh on a false contains literal: m_ncs.push_back
FcAssignNotContains ==
    /\ FcFrame
    /\ fc_pc = 0 /\ m_has_seq /\ Len(m_ncs) < MaxStore
    /\ m_ncs' = Append(m_ncs, Len(m_ncs) + 1)
    /\ UNCHANGED <<fc_pc, fc_attempted, fc_fired, fc_status, m_new_propagation,
                   m_has_seq, m_split_w_len, m_eqs, m_automata, m_lts, m_lts_checked>>

\* assign_eh on an lt/le literal: m_lts.push_back
FcAssignLt ==
    /\ FcFrame
    /\ fc_pc = 0 /\ m_has_seq /\ Len(m_lts) < MaxStore
    /\ m_lts' = Append(m_lts, Len(m_lts) + 1)
    /\ UNCHANGED <<fc_pc, fc_attempted, fc_fired, fc_status, m_new_propagation,
                   m_has_seq, m_split_w_len, m_eqs, m_ncs, m_automata, m_lts_checked>>

\* get_automaton on a regex not yet in the table: the result of m_mk_aut is
\* pushed also when it is null
FcGetAutomaton ==
    /\ FcFrame
    /\ fc_pc = 0 /\ m_has_seq /\ Len(m_automata) < MaxStore
    /\ \E compiled \in BOOLEAN : m_automata' = Append(m_automata, compiled)
    /\ UNCHANGED <<fc_pc, fc_attempted, fc_fired, fc_status, m_new_propagation,
                   m_has_seq, m_split_w_len, m_eqs, m_ncs, m_lts, m_lts_checked>>

FcInit ==
    /\ fc_pc = 0
    /\ fc_attempted = <<>>
    /\ fc_fired = {}
    /\ fc_status = "NONE"
    /\ m_new_propagation = FALSE
    /\ m_has_seq \in BOOLEAN
    /\ m_split_w_len \in BOOLEAN
    /\ m_eqs = <<>>
    /\ m_ncs = <<>>
    /\ m_automata = <<>>
    /\ m_lts = <<>>
    /\ m_lts_checked = FALSE

\* the solution map after construction: every slot empty
RepInit ==
    /\ m_map = [k \in Keys |-> NoEntry]
    /\ m_updates = <<>>
    /\ m_limit = <<>>
    /\ m_cache = {}

SatInit ==
    /\ assignment = [v \in BoolVars |-> "undef"]
    /\ sat_trail = <<>>
    /\ sat_limit = <<>>

ObsInit ==
    /\ lin_ok = TRUE
    /\ lin_deps = FALSE
    /\ rep_snap = <<>>
    /\ in_model = FALSE

\* the scoped containers after construction
ScInit ==
    /\ m_nqs = <<>>
    /\ vec_scopes = <<>>
    /\ m_exclude = [table |-> {}, lhs |-> <<>>, limit |-> <<>>]
    /\ m_trail_stack = <<>>
    /\ m_trail_lim = <<>>
    /\ m_axioms = <<>>
    /\ m_axiom_set = {}
    /\ m_axioms_head = 0
    /\ m_has_length = {}
    /\ m_length = <<>>
    /\ m_fixed = {}
    /\ m_s_in_re = <<>>
    /\ scope_snap = <<>>

\* the search control after construction
ResInit ==
    /\ m_length_limit_map = [s \in Vars |-> 0]
    /\ m_is_digit = {}
    /\ th_assumptions = {}
    /\ op_ret = [op |-> "none"]

\* m_max_unfolding_depth after construction
InitialUnfoldingDepth == 1

\* no membership constraint
ReIdle ==
    /\ re_s = <<>>
    /\ unf_active = FALSE
    /\ m_max_unfolding_depth = InitialUnfoldingDepth
    /\ re_true = {}
    /\ re_queue = {}
    /\ re_clauses = {}
    /\ re_conflict = "none"

FcNext ==
    \/ FinalCheckBegin /\ UNCHANGED resVars
    \/ FinalCheckRule /\ UNCHANGED resVars
    \/ FinalCheckEnd /\ UNCHANGED resVars
    \/ FcNewEq /\ UNCHANGED resVars
    \/ FcSolveEq /\ UNCHANGED resVars
    \/ FcAssignNotContains /\ UNCHANGED resVars
    \/ FcAssignLt /\ UNCHANGED resVars
    \/ FcGetAutomaton /\ UNCHANGED resVars

InitFC == FcInit /\ RepInit /\ SatInit /\ ObsInit /\ ScInit /\ ReIdle /\ ResInit

SpecFC == InitFC /\ [][FcNext]_vars

\* ---------------------------------------------------------------------------
\* expand / canonize
\* ---------------------------------------------------------------------------
\* rel holds the literals expand1 marked relevant
ExpFail(cache) ==
    [ok |-> FALSE, e |-> NullTerm, d |-> {}, cache |-> cache, rel |-> {}]

\* expand1 on an ite whose condition c is undecided
ExpUndef(cache, c) == [ExpFail(cache) EXCEPT !.rel = {c}]

\* an ite that adds nothing to the dependency
IteDepNone(c, val) == {}

\* the leaf expand1 joins for an ite whose condition c has the value val
IteDep(c, val) == {Lit(c, val)}

\* the end of expand1: the dependency is dropped when nothing changed, the
\* result is cached
ExpDone(e0, res, deps, cache) ==
    LET d == IF res = e0 THEN {} ELSE deps
    IN  [ok |-> TRUE, e |-> res, d |-> d, cache |-> AddCache(cache, e0, res, d),
         rel |-> {}]

\* a try_expand that does not join the dependency of the cache entry
ExpHitNoDeps(e0, cache) ==
    [ok |-> TRUE, e |-> CacheGet(cache, e0).e, d |-> {}, cache |-> cache,
     rel |-> {}]

\* try_expand on a cached term
ExpHit(e0, cache) ==
    LET ed == CacheGet(cache, e0)
    IN  [ok |-> TRUE, e |-> ed.e, d |-> IF e0 # ed.e THEN ed.d ELSE {},
         cache |-> cache, rel |-> {}]

\* expand: expand1 on e0 with the sub-terms that try_expand pushed on
\* m_expand_todo expanded first (the one pushed last first).  Returns the
\* result, the dependency of e0 and the cache as the call leaves it.
RECURSIVE Exp(_, _, _, _)
Exp(map, e0, cache, fuel) ==
    IF fuel = 0 THEN ExpFail(cache)
    ELSE IF InCache(cache, e0) THEN ExpHit(e0, cache)
    ELSE
      LET f == Find(map, e0, ExpandFuel)
          e == f.e
      IN  IF is_concat(e)
          THEN LET r2 == Exp(map, e[3], cache, fuel - 1) IN
               IF ~r2.ok THEN r2
               ELSE LET r1 == Exp(map, e[2], r2.cache, fuel - 1) IN
                    IF ~r1.ok THEN r1
                    ELSE ExpDone(e0, mk_concat(r1.e, r2.e),
                                 f.d \cup r1.d \cup r2.d, r1.cache)
          ELSE IF is_ite(e)
          THEN CASE assignment[e[2]] = "true" ->
                      LET r == Exp(map, e[3], cache, fuel - 1) IN
                      IF ~r.ok THEN r
                      ELSE ExpDone(e0, r.e, f.d \cup IteDep(e[2], TRUE) \cup r.d,
                                   r.cache)
                 [] assignment[e[2]] = "false" ->
                      LET r == Exp(map, e[4], cache, fuel - 1) IN
                      IF ~r.ok THEN r
                      ELSE ExpDone(e0, r.e, f.d \cup IteDep(e[2], FALSE) \cup r.d,
                                   r.cache)
                 [] OTHER -> ExpUndef(cache, e[2])
          ELSE ExpDone(e0, e, f.d, cache)

\* canonize: expand, then the rewriter on the result
Canonize(map, e, cache) ==
    LET r == Exp(map, e, cache, ExpandFuel)
    IN  [ok |-> r.ok, e |-> IF r.ok THEN Rewrite(r.e) ELSE NullTerm, d |-> r.d,
         cache |-> r.cache]

\* the occurs check of solve_unit_eq: a occurs in b expanded through the map
RECURSIVE Occurs(_, _, _, _)
Occurs(map, a, b, fuel) ==
    IF a = b \/ fuel = 0 THEN TRUE
    ELSE IF HasEntry(map, b) THEN Occurs(map, a, map[b].e, fuel - 1)
    ELSE IF is_concat(b)
         THEN Occurs(map, a, b[2], fuel - 1) \/ Occurs(map, a, b[3], fuel - 1)
    ELSE IF is_ite(b)
         THEN Occurs(map, a, b[3], fuel - 1) \/ Occurs(map, a, b[4], fuel - 1)
    ELSE FALSE

\* linearize: the literals of a dependency; the assertion wants each assigned true
LinearizeOk(d) == \A l \in d : IsTrue(l)

\* the dependencies an equation handed to the solver can carry
DepChoices == {{}} \cup {{l} : l \in TrueLits}

\* ---------------------------------------------------------------------------
\* Scoped containers: exclusion table, trail stack, scoped vectors
\* ---------------------------------------------------------------------------
\* expr::get_id of the terms that enter the exclusion table
TermId(t) == IF t = VarX THEN 1 ELSE IF t = VarY THEN 2 ELSE 3

\* exclusion_table::contains
ExcludeContains(ex, e, r) ==
    LET p == IF TermId(e) > TermId(r) THEN <<r, e>> ELSE <<e, r>>
    IN  p \in ex.table

\* exclusion_table::update that does not look for the pair in the table
ExcludeUpdateAgain(ex, e, r) ==
    LET p == IF TermId(e) > TermId(r) THEN <<r, e>> ELSE <<e, r>>
    IN  IF p[1] # p[2]
        THEN [ex EXCEPT !.table = ex.table \cup {p}, !.lhs = Append(ex.lhs, p)]
        ELSE ex

\* exclusion_table::update
ExcludeUpdate(ex, e, r) ==
    LET p == IF TermId(e) > TermId(r) THEN <<r, e>> ELSE <<e, r>>
    IN  IF p[1] # p[2] /\ p \notin ex.table
        THEN [ex EXCEPT !.table = ex.table \cup {p}, !.lhs = Append(ex.lhs, p)]
        ELSE ex

\* exclusion_table::pop_scope that resizes m_lhs/m_rhs and leaves m_table
ExcludePopScopeKeepTable(ex, n) ==
    IF n = 0 THEN ex
    ELSE LET start == ex.limit[Len(ex.limit) - n + 1]
         IN  [ex EXCEPT !.lhs = SubSeq(ex.lhs, 1, start),
                        !.limit = SubSeq(ex.limit, 1, Len(ex.limit) - n)]

\* exclusion_table::pop_scope
ExcludePopScope(ex, n) ==
    IF n = 0 THEN ex
    ELSE LET start == ex.limit[Len(ex.limit) - n + 1]
         IN  [table |-> ex.table \ {ex.lhs[i] : i \in (start + 1)..Len(ex.lhs)},
              lhs |-> SubSeq(ex.lhs, 1, start),
              limit |-> SubSeq(ex.limit, 1, Len(ex.limit) - n)]

\* exclusion_table::push_scope
ExcludePushScope(ex) == [ex EXCEPT !.limit = Append(ex.limit, Len(ex.lhs))]

\* the containers whose changes m_trail_stack records
TS ==
    [axioms |-> m_axioms, axiom_set |-> m_axiom_set, head |-> m_axioms_head,
     has_length |-> m_has_length, length |-> m_length, fixed |-> m_fixed,
     s_in_re |-> m_s_in_re, lts_checked |-> m_lts_checked,
     trail |-> m_trail_stack]

SetTS(ts) ==
    /\ m_axioms' = ts.axioms
    /\ m_axiom_set' = ts.axiom_set
    /\ m_axioms_head' = ts.head
    /\ m_has_length' = ts.has_length
    /\ m_length' = ts.length
    /\ m_fixed' = ts.fixed
    /\ m_s_in_re' = ts.s_in_re
    /\ m_lts_checked' = ts.lts_checked
    /\ m_trail_stack' = ts.trail

\* an undo record: value_trail, push_back_vector, insert_obj_trail or
\* vector_value_trail on one of the containers
TrailRec(kind, arg, old) == [k |-> kind, a |-> arg, old |-> old]

\* m_trail_stack.push
TrailPush(ts, rec) == [ts EXCEPT !.trail = Append(ts.trail, rec)]

DropLast(s) == SubSeq(s, 1, Len(s) - 1)

\* an undo that leaves the axiom cursor where it is
UndoRecKeepCursor(ts, rec) ==
    CASE rec.k = "value_axioms_head" -> ts
      [] rec.k = "value_lts_checked" -> [ts EXCEPT !.lts_checked = rec.old]
      [] rec.k = "pop_axioms" -> [ts EXCEPT !.axioms = DropLast(ts.axioms)]
      [] rec.k = "pop_length" -> [ts EXCEPT !.length = DropLast(ts.length)]
      [] rec.k = "pop_s_in_re" -> [ts EXCEPT !.s_in_re = DropLast(ts.s_in_re)]
      [] rec.k = "erase_axiom_set" ->
            [ts EXCEPT !.axiom_set = ts.axiom_set \ {rec.a}]
      [] rec.k = "erase_has_length" ->
            [ts EXCEPT !.has_length = ts.has_length \ {rec.a}]
      [] rec.k = "erase_fixed" -> [ts EXCEPT !.fixed = ts.fixed \ {rec.a}]
      [] rec.k = "push_replay" -> ts
      [] rec.k = "erase_is_digit" -> ts
      [] rec.k = "value_s_in_re" ->
            [ts EXCEPT !.s_in_re = [ts.s_in_re EXCEPT ![rec.a] = rec.old]]

\* trail::undo of one record
UndoRec(ts, rec) ==
    CASE rec.k = "value_axioms_head" -> [ts EXCEPT !.head = rec.old]
      [] rec.k = "value_lts_checked" -> [ts EXCEPT !.lts_checked = rec.old]
      [] rec.k = "pop_axioms" -> [ts EXCEPT !.axioms = DropLast(ts.axioms)]
      [] rec.k = "pop_length" -> [ts EXCEPT !.length = DropLast(ts.length)]
      [] rec.k = "pop_s_in_re" -> [ts EXCEPT !.s_in_re = DropLast(ts.s_in_re)]
      [] rec.k = "erase_axiom_set" ->
            [ts EXCEPT !.axiom_set = ts.axiom_set \ {rec.a}]
      [] rec.k = "erase_has_length" ->
            [ts EXCEPT !.has_length = ts.has_length \ {rec.a}]
      [] rec.k = "erase_fixed" -> [ts EXCEPT !.fixed = ts.fixed \ {rec.a}]
      [] rec.k = "push_replay" -> ts
      [] rec.k = "erase_is_digit" -> ts
      [] rec.k = "value_s_in_re" ->
            [ts EXCEPT !.s_in_re = [ts.s_in_re EXCEPT ![rec.a] = rec.old]]

\* trail_stack::pop_scope: undo the records above the mark, newest first
RECURSIVE TrailUndo(_, _)
TrailUndo(ts, mark) ==
    IF Len(ts.trail) <= mark THEN ts
    ELSE LET rec == ts.trail[Len(ts.trail)]
         IN  TrailUndo(UndoRec([ts EXCEPT !.trail = DropLast(ts.trail)], rec), mark)

\* enque_axiom
EnqueAxiomTS(ts, e) ==
    IF e \in ts.axiom_set THEN ts
    ELSE TrailPush(
           TrailPush([ts EXCEPT !.axioms = Append(ts.axioms, e),
                                !.axiom_set = ts.axiom_set \cup {e}],
                     TrailRec("pop_axioms", 0, 0)),
           TrailRec("erase_axiom_set", e, 0))

mk_length(e) == <<"len", e>>
is_length(n) == n[1] = "len"

\* add_length
AddLengthTS(ts, e, l) ==
    TrailPush(
      TrailPush([ts EXCEPT !.length = Append(ts.length, l),
                           !.has_length = ts.has_length \cup {e}],
                TrailRec("erase_has_length", e, 0)),
      TrailRec("pop_length", 0, 0))

\* add_length_to_eqc for a term alone in its equivalence class
AddLengthToEqcTS(ts, e) ==
    IF e \in ts.has_length THEN ts
    ELSE AddLengthTS(EnqueAxiomTS(ts, mk_length(e)), e, mk_length(e))

\* deque_axiom, as far as it changes the containers
DequeAxiomTS(ts, n) ==
    IF is_length(n) THEN ts
    ELSE IF is_empty(n) /\ n \notin ts.has_length /\ ts.has_length # {}
    THEN AddLengthToEqcTS(ts, n)
    ELSE ts

\* the first loop of propagate
RECURSIVE PropagateTS(_)
PropagateTS(ts) ==
    IF ts.head < Len(ts.axioms)
    THEN LET ts1 == DequeAxiomTS(ts, ts.axioms[ts.head + 1])
         IN  PropagateTS([ts1 EXCEPT !.head = ts.head + 1])
    ELSE ts

\* fixed_length(is_zero) over m_length: fixedvars are the variables whose
\* length bounds coincide
RECURSIVE FixedLengthTS(_, _, _)
FixedLengthTS(ts, i, fixedvars) ==
    IF i > Len(ts.length) THEN ts
    ELSE LET e == ts.length[i][2]
         IN  IF is_var(e) /\ e \in fixedvars /\ e \notin ts.fixed
             THEN FixedLengthTS(
                    [TrailPush(ts, TrailRec("erase_fixed", e, 0))
                        EXCEPT !.fixed = ts.fixed \cup {e}],
                    i + 1, fixedvars)
             ELSE FixedLengthTS(ts, i + 1, fixedvars)

\* the loop of propagate_in_re over m_s_in_re, from entry i on, followed by
\* the push_back of the new entry
RECURSIVE PropagateInReTS(_, _, _, _)
PropagateInReTS(ts, i, s, re) ==
    IF i > Len(ts.s_in_re)
    THEN TrailPush([ts EXCEPT !.s_in_re =
                        Append(ts.s_in_re, [s |-> s, re |-> re, active |-> TRUE])],
                   TrailRec("pop_s_in_re", 0, 0))
    ELSE LET entry == ts.s_in_re[i]
         IN  IF entry.active /\ entry.s = s /\ entry.re # re
             THEN PropagateInReTS(
                    [TrailPush(ts, TrailRec("value_s_in_re", i, entry))
                        EXCEPT !.s_in_re[i].active = FALSE],
                    i + 1, s, entry.re \cup re)
             ELSE PropagateInReTS(ts, i + 1, s, re)

\* scoped_vector::erase_and_swap
EraseAndSwap(v, i) ==
    DropLast(IF i < Len(v) THEN [v EXCEPT ![i] = v[Len(v)]] ELSE v)

\* the loop of check_contains: solved are the entries solve_nc finishes
RECURSIVE CheckContainsLoop(_, _, _)
CheckContainsLoop(ncs, i, solved) ==
    IF i > Len(ncs) THEN ncs
    ELSE IF ncs[i] \in solved
    THEN CheckContainsLoop(EraseAndSwap(ncs, i), i, solved)
    ELSE CheckContainsLoop(ncs, i + 1, solved)

\* the content of the four scoped vectors
Vecs == [eqs |-> m_eqs, nqs |-> m_nqs, ncs |-> m_ncs, lts |-> m_lts]

\* the state a pop has to bring back
ScopeState ==
    [map |-> m_map, exclude |-> [table |-> m_exclude.table, lhs |-> m_exclude.lhs],
     vecs |-> Vecs,
     axioms |-> m_axioms, axiom_set |-> m_axiom_set, head |-> m_axioms_head,
     has_length |-> m_has_length, length |-> m_length, fixed |-> m_fixed,
     s_in_re |-> m_s_in_re, lts_checked |-> m_lts_checked]

\* ---------------------------------------------------------------------------
\* Operations on the solution map
\* ---------------------------------------------------------------------------
ScopeLevel == Len(sat_limit)

\* the variables the solution-map operations leave alone
MapFrame == UNCHANGED <<fcVars, scVars, reVars>>

\* the fields of the cascade that the scope handlers leave alone
FcScopeFrame ==
    UNCHANGED <<fc_pc, fc_attempted, fc_fired, fc_status, m_new_propagation,
                m_has_seq, m_split_w_len, m_automata, reVars>>

\* context push followed by theory_seq::push_scope_eh
PushScopeEh ==
    /\ ~in_model
    /\ ScopeLevel < MaxScopes
    /\ SetRep(RepPushScope(Rep))
    /\ m_exclude' = ExcludePushScope(m_exclude)
    /\ m_trail_lim' = Append(m_trail_lim, Len(m_trail_stack))
    /\ m_trail_stack' =
          Append(m_trail_stack, TrailRec("value_axioms_head", 0, m_axioms_head))
    /\ vec_scopes' = Append(vec_scopes, Vecs)
    /\ sat_limit' = Append(sat_limit, Len(sat_trail))
    /\ rep_snap' = Append(rep_snap, m_map)
    /\ scope_snap' = Append(scope_snap, ScopeState)
    /\ UNCHANGED <<assignment, sat_trail, lin_ok, lin_deps, in_model>>
    /\ UNCHANGED <<m_eqs, m_nqs, m_ncs, m_lts, m_lts_checked, m_axioms, m_axiom_set,
                   m_axioms_head, m_has_length, m_length, m_fixed, m_s_in_re>>
    /\ FcScopeFrame

\* context pop of n scopes with theory_seq::pop_scope_eh(n)
PopScopeEh(n) ==
    /\ ~in_model
    /\ n \in 1..ScopeLevel
    /\ SetTS(TrailUndo(TS, m_trail_lim[ScopeLevel - n + 1]))
    /\ m_trail_lim' = SubSeq(m_trail_lim, 1, ScopeLevel - n)
    /\ SetRep(RepPopScope(Rep, n))
    /\ m_exclude' = ExcludePopScope(m_exclude, n)
    /\ LET saved == vec_scopes[ScopeLevel - n + 1]
       IN  /\ m_eqs' = saved.eqs
           /\ m_nqs' = saved.nqs
           /\ m_ncs' = saved.ncs
           /\ m_lts' = saved.lts
    /\ vec_scopes' = SubSeq(vec_scopes, 1, ScopeLevel - n)
    /\ LET start == sat_limit[ScopeLevel - n + 1]
           undone == {sat_trail[i] : i \in (start + 1)..Len(sat_trail)}
       IN  /\ assignment' = [v \in BoolVars |->
                               IF v \in undone THEN "undef" ELSE assignment[v]]
           /\ sat_trail' = SubSeq(sat_trail, 1, start)
    /\ sat_limit' = SubSeq(sat_limit, 1, ScopeLevel - n)
    /\ rep_snap' = SubSeq(rep_snap, 1, Len(rep_snap) - n)
    /\ scope_snap' = SubSeq(scope_snap, 1, Len(scope_snap) - n)
    /\ UNCHANGED <<lin_ok, lin_deps, in_model>>
    /\ FcScopeFrame

\* the SAT engine assigns a literal
Assign(v, val) ==
    /\ ~in_model
    /\ assignment[v] = "undef"
    /\ assignment' = [assignment EXCEPT ![v] = val]
    /\ sat_trail' = Append(sat_trail, v)
    /\ UNCHANGED <<repVars, sat_limit, obsVars>>
    /\ MapFrame

\* solve_unit_eq committing l -> r: add_solution
AddSolution(l, r, d) ==
    /\ ~in_model
    /\ is_var(l) /\ ~Occurs(m_map, l, r, ExpandFuel)
    /\ LET rep1 == RepUpdate(Rep, l, r, d)
           sl == Rewrite(l)
           rep2 == RepUpdate(rep1, sl, r, d)
       IN  /\ Len(rep2.updates) <= MaxTrail
           /\ SetRep(rep2)
    /\ lin_ok' = (lin_ok /\ LinearizeOk(d))
    /\ lin_deps' = (lin_deps \/ d # {})
    /\ UNCHANGED <<satVars, rep_snap, in_model>>
    /\ MapFrame

\* add_elim_string_axiom on the string constant "ab"
AddElimStringAxiom ==
    /\ ~in_model
    /\ Len(m_updates) + 2 <= MaxTrail
    /\ SetRep(RepUpdate(Rep, StrAB, mk_concat(UnitA, UnitB), {}))
    /\ UNCHANGED <<satVars, obsVars>>
    /\ MapFrame

\* canonizes: canonize e and, when the result decides the literal, propagate
\* it with the dependency canonize returned
Canonizes(e, decides) ==
    /\ LET r == Canonize(m_map, e, m_cache)
       IN  /\ m_cache' = r.cache
           /\ lin_ok' = (lin_ok /\ ((r.ok /\ decides) => LinearizeOk(r.d)))
           /\ lin_deps' = (lin_deps \/ (r.ok /\ decides /\ r.d # {}))
    /\ UNCHANGED <<m_map, m_updates, m_limit, satVars, rep_snap, in_model>>
    /\ MapFrame

\* init_model(mg): push a scope of the map, then init_model(es) on the sides
\* of the disequations
InitModel(es) ==
    /\ ~in_model
    /\ Len(m_updates) + 2 <= MaxTrail
    /\ in_model' = TRUE
    /\ rep_snap' = Append(rep_snap, m_map)
    /\ LET rep0 == RepPushScope(Rep)
       IN  IF es = {} THEN SetRep(rep0)
           ELSE \E e \in es, fresh \in FactoryValues :
                  LET c == Canonize(rep0.map, e, rep0.cache)
                      s == IF c.ok THEN c.e ELSE e
                      rep1 == [rep0 EXCEPT !.cache = c.cache]
                  IN  SetRep(IF is_var(s) THEN RepUpdate(rep1, s, fresh, c.d)
                             ELSE rep1)
    /\ UNCHANGED <<satVars, lin_ok, lin_deps>>
    /\ MapFrame

\* mk_value(app* e)
MkValue(e, val) ==
    /\ in_model
    /\ Len(m_updates) + 2 <= MaxTrail
    /\ LET root == Find(m_map, e, ExpandFuel).e
           result == IF is_var(root) THEN val ELSE Rewrite(root)
       IN  SetRep(RepUpdate(Rep, e, result, {}))
    /\ UNCHANGED <<satVars, obsVars>>
    /\ MapFrame

\* finalize_model
FinalizeModel ==
    /\ in_model
    /\ in_model' = FALSE
    /\ SetRep(RepPopScope(Rep, 1))
    /\ rep_snap' = SubSeq(rep_snap, 1, Len(rep_snap) - 1)
    /\ UNCHANGED <<satVars, lin_ok, lin_deps>>
    /\ MapFrame

MapNext ==
    \/ PushScopeEh /\ UNCHANGED resVars
    \/ \E n \in 1..MaxScopes : PopScopeEh(n) /\ UNCHANGED resVars
    \/ \E v \in BoolVars, val \in {"true", "false"} : Assign(v, val) /\ UNCHANGED resVars
    \/ \E l \in Vars, r \in RhsTerms, d \in DepChoices : AddSolution(l, r, d) /\ UNCHANGED resVars
    \/ AddElimStringAxiom /\ UNCHANGED resVars
    \/ \E e \in CanonTerms, decides \in BOOLEAN : Canonizes(e, decides) /\ UNCHANGED resVars
    \/ \E es \in {{}} \cup {{e} : e \in CanonTerms} : InitModel(es) /\ UNCHANGED resVars
    \/ \E e \in Keys, val \in FactoryValues : MkValue(e, val) /\ UNCHANGED resVars
    \/ FinalizeModel /\ UNCHANGED resVars

\* the cascade state is fixed while the solution map is exercised
FcIdle ==
    /\ fc_pc = 0
    /\ fc_attempted = <<>>
    /\ fc_fired = {}
    /\ fc_status = "NONE"
    /\ m_new_propagation = FALSE
    /\ m_has_seq = TRUE
    /\ m_split_w_len = FALSE
    /\ m_eqs = <<>>
    /\ m_ncs = <<>>
    /\ m_automata = <<>>
    /\ m_lts = <<>>
    /\ m_lts_checked = FALSE

InitMap == FcIdle /\ RepInit /\ SatInit /\ ObsInit /\ ScInit /\ ReIdle /\ ResInit

SpecMap == InitMap /\ [][MapNext]_vars

\* ---------------------------------------------------------------------------
\* Operations on the scoped containers
\* ---------------------------------------------------------------------------
\* the terms that get a length term, the axioms that are enqueued, the
\* regular expressions of the membership literals
LenTerms == {VarX, Empty}
AxiomTerms == {mk_length(VarX), Empty}
Regexes == {{"r1"}, {"r2"}}

\* what the operations on the trailed containers leave alone
TrailFrame ==
    UNCHANGED <<repVars, satVars, obsVars, m_nqs, vec_scopes, m_exclude,
                m_trail_lim, scope_snap, fc_pc, fc_attempted, fc_fired, fc_status,
                m_new_propagation, m_has_seq, m_split_w_len, m_eqs, m_ncs,
                m_automata, m_lts, reVars>>

\* enque_axiom
EnqueAxiom(e) ==
    /\ SetTS(EnqueAxiomTS(TS, e))
    /\ TrailFrame

\* propagate, when can_propagate holds for the axiom queue
Propagate ==
    /\ m_axioms_head < Len(m_axioms)
    /\ SetTS(PropagateTS(TS))
    /\ TrailFrame

\* add_length_to_eqc
AddLengthToEqc(e) ==
    /\ SetTS(AddLengthToEqcTS(TS, e))
    /\ TrailFrame

\* fixed_length(is_zero)
FixedLength(fixedvars) ==
    /\ SetTS(FixedLengthTS(TS, 1, fixedvars))
    /\ TrailFrame

\* check_lts, as far as it changes the containers
CheckLts ==
    /\ m_lts # <<>> /\ ~m_lts_checked
    /\ SetTS([TrailPush(TS, TrailRec("value_lts_checked", 0, m_lts_checked))
                EXCEPT !.lts_checked = TRUE])
    /\ TrailFrame

\* propagate_in_re, as far as it changes the containers
PropagateInRe(s, re) ==
    /\ SetTS(PropagateInReTS(TS, 1, s, re))
    /\ TrailFrame

\* new_diseq_eh on two sequence terms whose disequality does not rewrite to
\* false
NewDiseqEh(e1, e2) ==
    /\ m_exclude' = ExcludeUpdate(m_exclude, e1, e2)
    /\ m_nqs' = Append(m_nqs, <<e1, e2>>)
    /\ UNCHANGED <<fcVars, repVars, satVars, obsVars, vec_scopes, trailVars,
                   scope_snap, reVars>>

\* check_contains, as far as it changes the containers
CheckContains(solved) ==
    /\ m_ncs # <<>>
    /\ m_ncs' = CheckContainsLoop(m_ncs, 1, solved)
    /\ UNCHANGED <<fc_pc, fc_attempted, fc_fired, fc_status, m_new_propagation,
                   m_has_seq, m_split_w_len, m_eqs, m_automata, m_lts,
                   m_lts_checked>>
    /\ FcFrame

\* what the operations so far have left in the containers
ScWork ==
    Len(m_updates) + Len(sat_trail) + Len(m_eqs) + Len(m_nqs) + Len(m_ncs)
    + Len(m_lts) + (IF m_lts_checked THEN 1 ELSE 0) + Len(m_axioms)
    + m_axioms_head + Len(m_length) + Cardinality(m_fixed) + Len(m_s_in_re)

ScNext ==
    \/ PushScopeEh /\ UNCHANGED resVars
    \/ \E n \in 1..MaxScopes : PopScopeEh(n) /\ UNCHANGED resVars
    \/ ScWork < MaxWork /\ \E v \in BoolVars, val \in {"true", "false"} : Assign(v, val)
         /\ UNCHANGED resVars
    \/ ScWork < MaxWork /\ \E r \in {VarY, StrAB}, d \in DepChoices : AddSolution(VarX, r, d)
         /\ UNCHANGED resVars
    \/ ScWork < MaxWork /\ FcNewEq /\ UNCHANGED resVars
    \/ ScWork < MaxWork /\ FcSolveEq /\ UNCHANGED resVars
    \/ ScWork < MaxWork /\ \E e1 \in Vars : \E e2 \in Vars \ {e1} : NewDiseqEh(e1, e2)
         /\ UNCHANGED resVars
    \/ ScWork < MaxWork /\ FcAssignNotContains /\ UNCHANGED resVars
    \/ \E solved \in SUBSET Range(m_ncs) : CheckContains(solved) /\ UNCHANGED resVars
    \/ ScWork < MaxWork /\ FcAssignLt /\ UNCHANGED resVars
    \/ ScWork < MaxWork /\ CheckLts /\ UNCHANGED resVars
    \/ ScWork < MaxWork /\ \E e \in AxiomTerms : EnqueAxiom(e) /\ UNCHANGED resVars
    \/ ScWork < MaxWork /\ Propagate /\ UNCHANGED resVars
    \/ ScWork < MaxWork /\ \E e \in LenTerms : AddLengthToEqc(e) /\ UNCHANGED resVars
    \/ ScWork < MaxWork /\ \E fixedvars \in SUBSET {VarX} : FixedLength(fixedvars)
         /\ UNCHANGED resVars
    \/ ScWork < MaxWork /\ \E re \in Regexes : PropagateInRe(VarX, re) /\ UNCHANGED resVars

InitScope == FcIdle /\ RepInit /\ SatInit /\ ObsInit /\ ScInit /\ ReIdle /\ ResInit

SpecScope == InitScope /\ [][ScNext]_vars

\* ---------------------------------------------------------------------------
\* Regular-expression membership: accept / step unfolding
\* ---------------------------------------------------------------------------
\* the automaton get_automaton returns for the regular expression
\* (a|b)* a b a*: state 2 is final, state 3 is a sink
Aut ==
    [init |-> 0, states |-> 0..3, final |-> {2}, sinks |-> {3},
     moves |-> { <<0, "a", 0>>, <<0, "b", 0>>, <<0, "a", 1>>,
                 <<1, "b", 2>>, <<1, "a", 3>>,
                 <<2, "a", 2>>, <<2, "b", 3>>,
                 <<3, "a", 3>>, <<3, "b", 3>> }]

Chars == {"a", "b"}
is_sink_state(q) == q \in Aut.sinks
is_final_state(q) == q \in Aut.final
get_moves_from(q) == {mv \in Aut.moves : mv[1] = q}

\* the sequences a model can give to s
Strings == UNION {[1..n -> Chars] : n \in 0..MaxLen}

\* literals accept(s, idx, re, q) and step(s, idx, re, q, j, t); t is the
\* guard "nth(s, idx) = c" of the move
mk_accept(idx, q) == [k |-> "accept", i |-> idx, q |-> q, j |-> q, c |-> "-"]
mk_step(idx, q, j, c) == [k |-> "step", i |-> idx, q |-> q, j |-> j, c |-> c]

\* the automaton has a path from q to a final state that consumes the
\* elements of re_s from position idx (counted from 0) to the end
RECURSIVE HasPath(_, _)
HasPath(q, idx) ==
    IF idx > Len(re_s) THEN FALSE
    ELSE IF idx = Len(re_s) THEN is_final_state(q)
    ELSE \E mv \in get_moves_from(q) :
            mv[2] = re_s[idx + 1] /\ HasPath(mv[3], idx + 1)

\* propagate_accept without the bound len(s) >= idx of a final state
AcceptLengthNonFinalOnly(q, idx) ==
    is_final_state(q) \/ Len(re_s) > idx

\* the length literal propagate_accept propagates is true of re_s:
\* len(s) >= idx for a final state, len(s) > idx for a non-final one
AcceptLengthHolds(q, idx) ==
    IF is_final_state(q) THEN Len(re_s) >= idx ELSE Len(re_s) > idx

\* the guard t of a step holds of re_s; nth(s, idx) is unconstrained beyond
\* the end of s
StepGuardHolds(idx, c) == idx < Len(re_s) => re_s[idx + 1] = c

\* the literal len(s) > idx of propagate_step, left out when the lower
\* bound lo of len(s) is at least idx
StepLengthHolds(idx, lo) == lo >= idx \/ Len(re_s) > idx

\* the index of the accept literal a step propagates
StepNextIdx(idx) == idx + 1

ReFrame == UNCHANGED <<fcVars, repVars, satVars, obsVars, scVars, re_s, unf_active>>

ReSaturated == re_queue = {} /\ re_clauses = {}

\* the SAT engine makes an accept literal true, among them the literals of
\* the clause propagate_in_re adds for the initial state
ReAssignAccept(idx, q) ==
    /\ re_conflict = "none" /\ ReSaturated /\ re_true = {}
    /\ re_queue' = {mk_accept(idx, q)}
    /\ UNCHANGED <<re_true, re_clauses, re_conflict, m_max_unfolding_depth>>
    /\ ReFrame

\* assign_eh on a true accept literal: propagate_accept
PropagateAccept(lit) ==
    /\ re_conflict = "none"
    /\ lit \in re_queue /\ lit.k = "accept"
    /\ re_queue' = re_queue \ {lit}
    /\ re_true' = re_true \cup {lit}
    /\ IF is_sink_state(lit.q)
       THEN /\ re_conflict' = "sink"
            /\ UNCHANGED re_clauses
       ELSE /\ re_clauses' = re_clauses \cup {lit}
            /\ LET causes ==
                     (IF AcceptLengthHolds(lit.q, lit.i) THEN {} ELSE {"length"})
                     \cup (IF lit.i > m_max_unfolding_depth /\ unf_active
                           THEN {"unfolding"} ELSE {})
               IN  IF causes = {} THEN re_conflict' = "none"
                   ELSE re_conflict' \in causes
    /\ UNCHANGED m_max_unfolding_depth
    /\ ReFrame

\* the SAT engine satisfies the clause of an accept literal: by len(s) <= idx
\* for a final state, or by a step literal of one of the moves
SatisfyClause(lit) ==
    /\ re_conflict = "none"
    /\ lit \in re_clauses
    /\ re_clauses' = re_clauses \ {lit}
    /\ LET by_length == is_final_state(lit.q) /\ Len(re_s) <= lit.i
           steps == {mk_step(lit.i, lit.q, mv[3], mv[2]) : mv \in get_moves_from(lit.q)}
       IN  IF ~by_length /\ steps = {}
           THEN re_conflict' = "clause" /\ UNCHANGED re_queue
           ELSE /\ re_conflict' = "none"
                /\ \/ by_length /\ UNCHANGED re_queue
                   \/ \E st \in steps : re_queue' = re_queue \cup {st}
    /\ UNCHANGED <<re_true, m_max_unfolding_depth>>
    /\ ReFrame

\* assign_eh on a true step literal: propagate_step; lo is the lower bound
\* the arithmetic solver has for len(s)
PropagateStep(lit, lo) ==
    /\ re_conflict = "none"
    /\ lit \in re_queue /\ lit.k = "step"
    /\ re_true' = re_true \cup {lit}
    /\ IF ~StepGuardHolds(lit.i, lit.c)
       THEN re_conflict' = "guard" /\ re_queue' = re_queue \ {lit}
       ELSE IF ~StepLengthHolds(lit.i, lo)
       THEN re_conflict' = "length" /\ re_queue' = re_queue \ {lit}
       ELSE /\ re_conflict' = "none"
            /\ re_queue' = (re_queue \ {lit}) \cup {mk_accept(StepNextIdx(lit.i), lit.j)}
    /\ UNCHANGED <<re_clauses, m_max_unfolding_depth>>
    /\ ReFrame

\* should_research on an unsat core with the max_unfolding literal and no
\* length_limit literal, followed by a new search
ShouldResearch ==
    /\ re_conflict = "unfolding"
    /\ (1 + 3 * m_max_unfolding_depth) \div 2 <= MaxDepth
    /\ m_max_unfolding_depth' = (1 + 3 * m_max_unfolding_depth) \div 2
    /\ re_conflict' = "none"
    /\ re_true' = {}
    /\ re_queue' = {}
    /\ re_clauses' = {}
    /\ ReFrame

\* a model of s and the state of the unfolding assumption at the start of
\* the search
ReInit ==
    /\ re_s \in Strings
    /\ unf_active \in BOOLEAN
    /\ m_max_unfolding_depth = InitialUnfoldingDepth
    /\ re_true = {}
    /\ re_queue = {}
    /\ re_clauses = {}
    /\ re_conflict = "none"

ReNext ==
    \/ \E idx \in 0..MaxLen, q \in Aut.states : ReAssignAccept(idx, q) /\ UNCHANGED resVars
    \/ \E lit \in re_queue : PropagateAccept(lit) /\ UNCHANGED resVars
    \/ \E lit \in re_clauses : SatisfyClause(lit) /\ UNCHANGED resVars
    \/ \E lit \in re_queue, lo \in 0..Len(re_s) : PropagateStep(lit, lo) /\ UNCHANGED resVars
    \/ ShouldResearch /\ UNCHANGED resVars

InitRe == FcIdle /\ RepInit /\ SatInit /\ ObsInit /\ ScInit /\ ReInit /\ ResInit

SpecRe == InitRe /\ [][ReNext]_vars

\* ---------------------------------------------------------------------------
\* simplify_and_solve_eqs.  In this part the equation store holds the
\* equations themselves, <<l, r>>; a solver state is the record
\* [rep, eqs, ns, cf]: solution map, equation store, m_new_solution,
\* ctx.inconsistent().
\* ---------------------------------------------------------------------------
\* the equations new_eq_eh hands to the solver
Equations ==
    { <<VarX, Empty>>,
      <<VarX, VarY>>,
      <<VarX, UnitA>>,
      <<VarY, UnitB>>,
      <<VarX, mk_ite("c1", VarY, Empty)>>,
      <<mk_concat(VarX, VarY), mk_concat(VarY, VarX)>>,
      <<mk_concat(VarX, UnitA), mk_concat(VarY, UnitA)>>,
      <<mk_concat(VarY, UnitA), mk_concat(UnitA, VarY)>>,
      <<mk_concat(UnitA, VarX), mk_concat(UnitB, VarY)>> }

\* F applied to the value of v
With(v, F(_)) == CHOOSE y \in {F(x) : x \in {v}} : TRUE

\* seq_rewriter::reduce_eq: cancels the shared prefix and the shared suffix of
\* the two sides; the equation is inconsistent when distinct units meet at an
\* end or a unit is left against the empty sequence
reduce_eq(l, r) ==
    LET RECURSIVE Strip(_, _)
        Strip(a, b) ==
            IF a # <<>> /\ b # <<>> /\ Head(a) = Head(b)
            THEN Strip(Tail(a), Tail(b)) ELSE <<a, b>>
        Rev(s) == [i \in 1..Len(s) |-> s[Len(s) + 1 - i]]
        p == Strip(Leaves(l), Leaves(r))
        q == Strip(Rev(p[1]), Rev(p[2]))
        ls == Rev(q[1])
        rs == Rev(q[2])
        clash(a, b) == is_unit(a) /\ is_unit(b) /\ a # b
        bad == \/ ls = <<>> /\ \E i \in 1..Len(rs) : is_unit(rs[i])
               \/ rs = <<>> /\ \E i \in 1..Len(ls) : is_unit(ls[i])
               \/ ls # <<>> /\ rs # <<>>
                  /\ (clash(ls[1], rs[1]) \/ clash(ls[Len(ls)], rs[Len(rs)]))
    IN  [ok |-> ~bad,
         changed |-> bad \/ Len(ls) # Len(Leaves(l)),
         eqs |-> IF ls = <<>> /\ rs = <<>> THEN <<>>
                 ELSE << <<ConcatOf(ls), ConcatOf(rs)>> >>]

\* add_solution on a solver state
add_solution(st, l, r, d) ==
    IF l = r THEN [done |-> FALSE, st |-> st]
    ELSE [done |-> TRUE,
          st |-> [st EXCEPT !.ns = TRUE,
                            !.rep = RepUpdate(RepUpdate(st.rep, l, r, d),
                                              Rewrite(l), r, d)]]

\* solve_unit_eq: x = t with x a variable that does not occur in t
solve_unit_eq(st, l, r) ==
    IF l = r THEN [done |-> TRUE, st |-> st]
    ELSE IF is_var(l) /\ ~Occurs(st.rep.map, l, r, ExpandFuel)
    THEN add_solution(st, l, r, {})
    ELSE IF is_var(r) /\ ~Occurs(st.rep.map, r, l, ExpandFuel)
    THEN add_solution(st, r, l, {})
    ELSE [done |-> FALSE, st |-> st]

\* simplify_eq: reduce_eq, then each sub-equation goes to solve_unit_eq or
\* onto the equation store
simplify_eq(st, l, r) ==
    With(reduce_eq(l, r), LAMBDA red :
        LET RECURSIVE Sub(_, _)
            Sub(s0, i) ==
                With(s0, LAMBDA s :
                    IF i > Len(red.eqs) \/ s.cf THEN s
                    ELSE With(solve_unit_eq(s, red.eqs[i][1], red.eqs[i][2]),
                              LAMBDA u :
                                Sub(IF u.done THEN u.st
                                    ELSE [s EXCEPT !.eqs = Append(@, red.eqs[i])],
                                    i + 1)))
        IN  IF ~red.ok THEN [done |-> TRUE, st |-> [st EXCEPT !.cf = TRUE]]
            ELSE IF ~red.changed THEN [done |-> FALSE, st |-> st]
            ELSE [done |-> TRUE, st |-> Sub(st, 1)])

\* solve_eq: canonize both sides, then simplify_eq, then solve_unit_eq
solve_eq(st, idx) ==
    With(Canonize(st.rep.map, st.eqs[idx][1], st.rep.cache), LAMBDA cl :
    With(Canonize(st.rep.map, st.eqs[idx][2], cl.cache), LAMBDA cr :
    With([st EXCEPT !.rep.cache = cr.cache], LAMBDA st1 :
        IF ~cl.ok \/ ~cr.ok THEN [done |-> FALSE, st |-> st1]
        ELSE With(simplify_eq(st1, cl.e, cr.e), LAMBDA s :
                IF s.done THEN s ELSE solve_unit_eq(st1, cl.e, cr.e)))))

\* solve_eqs(i): one pass over the store; a solved equation is erased and the
\* last one swapped into its place
RECURSIVE solve_eqs(_, _, _)
solve_eqs(st0, i, fuel) ==
    With(st0, LAMBDA st :
        IF fuel = 0 \/ st.cf \/ i > Len(st.eqs) THEN st
        ELSE With(solve_eq(st, i), LAMBDA s :
                IF s.done
                THEN solve_eqs([s.st EXCEPT !.eqs = EraseAndSwap(@, i)], i, fuel - 1)
                ELSE solve_eqs(s.st, i + 1, fuel - 1)))

\* a loop that makes one pass and stops
SolveLoopOnePass(st, fuel) == solve_eqs([st EXCEPT !.ns = FALSE], 1, SolveFuel)

\* the loop of simplify_and_solve_eqs: passes while a pass added a solution
\* and the context is consistent
RECURSIVE SolveLoop(_, _)
SolveLoop(st0, fuel) ==
    With(st0, LAMBDA st :
        IF fuel = 0 \/ ~st.ns \/ st.cf THEN st
        ELSE SolveLoop(solve_eqs([st EXCEPT !.ns = FALSE], 1, SolveFuel), fuel - 1))

\* new_eq_eh on two sequence terms: m_eqs.push_back, then solve_eqs from the
\* new equation on
EqNewEq(eq) ==
    /\ re_conflict = "none"
    /\ Len(m_eqs) < MaxStore
    /\ <<eq[1], eq[2]>> \notin Range(m_nqs) /\ <<eq[2], eq[1]>> \notin Range(m_nqs)
    /\ LET st == solve_eqs([rep |-> Rep, eqs |-> Append(m_eqs, eq), ns |-> FALSE,
                            cf |-> FALSE], Len(m_eqs) + 1, SolveFuel)
       IN  /\ SetRep(st.rep)
           /\ m_eqs' = st.eqs
           /\ re_conflict' = IF st.cf THEN "eq" ELSE "none"
    /\ fc_attempted' = <<>>
    /\ UNCHANGED <<fc_pc, fc_fired, fc_status, m_new_propagation, m_has_seq,
                   m_split_w_len, m_ncs, m_automata, m_lts, m_lts_checked>>
    /\ UNCHANGED <<satVars, obsVars, scVars, re_s, unf_active,
                   m_max_unfolding_depth, re_true, re_queue, re_clauses>>

\* simplify_and_solve_eqs
SimplifyAndSolveEqs ==
    /\ re_conflict = "none"
    /\ LET st == SolveLoop([rep |-> Rep, eqs |-> m_eqs, ns |-> TRUE, cf |-> FALSE],
                           SolveFuel)
       IN  /\ SetRep(st.rep)
           /\ m_eqs' = st.eqs
           /\ re_conflict' = IF st.cf THEN "eq" ELSE "none"
    /\ fc_attempted' = <<"simplify_and_solve_eqs">>
    /\ UNCHANGED <<fc_pc, fc_fired, fc_status, m_new_propagation, m_has_seq,
                   m_split_w_len, m_ncs, m_automata, m_lts, m_lts_checked>>
    /\ UNCHANGED <<satVars, obsVars, scVars, re_s, unf_active,
                   m_max_unfolding_depth, re_true, re_queue, re_clauses>>

\* assign_eh on the condition of an ite
EqAssign(v, val) ==
    /\ re_conflict = "none"
    /\ assignment[v] = "undef"
    /\ assignment' = [assignment EXCEPT ![v] = val]
    /\ sat_trail' = Append(sat_trail, v)
    /\ fc_attempted' = <<>>
    /\ UNCHANGED <<fc_pc, fc_fired, fc_status, m_new_propagation, m_has_seq,
                   m_split_w_len, m_eqs, m_ncs, m_automata, m_lts, m_lts_checked>>
    /\ UNCHANGED <<repVars, sat_limit, obsVars, scVars, reVars>>

\* new_diseq_eh on two variables whose roots differ
EqNewDiseq(e1, e2) ==
    /\ re_conflict = "none"
    /\ Len(m_nqs) < MaxStore
    /\ Canonize(m_map, e1, {}).e # Canonize(m_map, e2, {}).e
    /\ NewDiseqEh(e1, e2)

\* a test that also excludes the pairs reduce_eq simplified
ExtExcludesChanged(e1, e2) == reduce_eq(e1, e2).changed

\* the test of check_extensionality that sends a pair to the exclusion table:
\* reduce_eq finds the canonical forms inconsistent
ExtExcludes(e1, e2) == ~reduce_eq(e1, e2).ok

\* check_extensionality with x the first sequence variable and y the second;
\* usable: y is a relevant shared root; diseq: ctx.is_diseq(y, x).  A pair
\* that is neither excluded nor inconsistent goes to ctx.assume_eq.
CheckExtensionality(usable, diseq) ==
    /\ re_conflict = "none"
    /\ LET c1 == Canonize(m_map, VarY, m_cache)
           c2 == Canonize(m_map, VarX, c1.cache)
           pr(a, b) == IF TermId(a) > TermId(b) THEN <<b, a>> ELSE <<a, b>>
           known == diseq \/ pr(VarY, VarX) \in m_exclude.table
       IN  /\ m_cache' = IF ~usable THEN m_cache
                         ELSE IF ~c1.ok \/ known THEN c1.cache
                         ELSE c2.cache
           /\ m_exclude' = IF usable /\ c1.ok /\ ~known /\ c2.ok
                              /\ ExtExcludes(c1.e, c2.e)
                           THEN ExcludeUpdate(m_exclude, VarY, VarX)
                           ELSE m_exclude
    /\ UNCHANGED <<fcVars, m_map, m_updates, m_limit, satVars, obsVars, m_nqs,
                   vec_scopes, trailVars, scope_snap, reVars>>

SolveNext ==
    \/ \E eq \in Equations : EqNewEq(eq) /\ UNCHANGED resVars
    \/ \E e1 \in Vars : \E e2 \in Vars \ {e1} : EqNewDiseq(e1, e2) /\ UNCHANGED resVars
    \/ \E usable \in BOOLEAN, diseq \in BOOLEAN : CheckExtensionality(usable, diseq)
         /\ UNCHANGED resVars
    \/ \E v \in BoolVars, val \in {"true", "false"} : EqAssign(v, val) /\ UNCHANGED resVars
    \/ SimplifyAndSolveEqs /\ UNCHANGED resVars

InitSolve == FcIdle /\ RepInit /\ SatInit /\ ObsInit /\ ScInit /\ ReIdle /\ ResInit

SpecSolve == InitSolve /\ [][SolveNext]_vars

\* ---------------------------------------------------------------------------
\* Search control: solve_itos, init_search_eh, add_theory_assumptions,
\* should_research, propagate_in_re.
\* ---------------------------------------------------------------------------
\* the decimal digits in the order of their values
DigitChars == <<"0", "1", "2", "3", "4", "5", "6", "7", "8", "9">>

is_digit(u) == is_unit(u) /\ u[2] \in Range(DigitChars)

\* the value the axioms of is_digit give to digit2int(u) for a digit u
digit2int(u) == (CHOOSE d \in 1..10 : DigitChars[d] = u[2]) - 1

\* the right-hand sides solve_itos is given: sequences of units, or a variable
ItosInputs ==
    LET U == {<<"unit", c>> : c \in {"0", "2", "4"}}
    IN  UNION {[1..k -> U] : k \in 0..MaxDigits} \cup {<<VarX>>}

\* 10 * (... (10 * d1 + d2) ...) + dk as solve_itos builds it
RECURSIVE Horner(_)
Horner(ds) ==
    IF Len(ds) = 1 THEN digit2int(ds[1])
    ELSE 10 * Horner(SubSeq(ds, 1, Len(ds) - 1)) + digit2int(ds[Len(ds)])

\* the units of rs solve_itos has not recorded yet
ItosFresh(digs, rs) ==
    {rs[i] : i \in {j \in 1..Len(rs) : is_unit(rs[j]) /\ rs[j] \notin digs}}

\* solve_itos without the literal on the leading digit
solve_itos_any_lead(digs, rs, known) ==
    LET fresh == ItosFresh(digs, rs)
        isd == {[k |-> "is_digit", u |-> u] : u \in fresh \ known}
    IN  IF rs = <<>>
        THEN [ret |-> TRUE, digs |-> digs, lits |-> {[k |-> "le", c |-> -1]}]
        ELSE IF \E i \in 1..Len(rs) : ~is_unit(rs[i])
        THEN [ret |-> FALSE, digs |-> digs \cup fresh, lits |-> isd]
        ELSE [ret |-> TRUE, digs |-> digs \cup fresh,
              lits |-> isd \cup {[k |-> "eq", ds |-> rs]}]

\* solve_itos that does not look at m_is_digit
solve_itos_redo(digs, rs, known) ==
    LET fresh == ItosFresh({}, rs)
        isd == {[k |-> "is_digit", u |-> u] : u \in fresh \ known}
    IN  IF rs = <<>>
        THEN [ret |-> TRUE, digs |-> digs, lits |-> {[k |-> "le", c |-> -1]}]
        ELSE IF \E i \in 1..Len(rs) : ~is_unit(rs[i])
        THEN [ret |-> FALSE, digs |-> digs \cup fresh, lits |-> isd]
        ELSE [ret |-> TRUE, digs |-> digs \cup fresh,
              lits |-> isd \cup {[k |-> "eq", ds |-> rs]}
                       \cup (IF Len(rs) > 1
                             THEN {[k |-> "ge", u |-> rs[1], c |-> 1]} ELSE {})]

\* solve_itos(n, rs, dep): the literals it propagates and what it adds to
\* m_is_digit; known are the units whose is_digit literal is true in the
\* context already.  le: n <= c; is_digit: u is a digit; eq: n = the Horner
\* sum of the digit2int of ds; ge: digit2int(u) >= c.
solve_itos(digs, rs, known) ==
    LET fresh == ItosFresh(digs, rs)
        isd == {[k |-> "is_digit", u |-> u] : u \in fresh \ known}
    IN  IF rs = <<>>
        THEN [ret |-> TRUE, digs |-> digs, lits |-> {[k |-> "le", c |-> -1]}]
        ELSE IF \E i \in 1..Len(rs) : ~is_unit(rs[i])
        THEN [ret |-> FALSE, digs |-> digs \cup fresh, lits |-> isd]
        ELSE [ret |-> TRUE, digs |-> digs \cup fresh,
              lits |-> isd \cup {[k |-> "eq", ds |-> rs]}
                       \cup (IF Len(rs) > 1
                             THEN {[k |-> "ge", u |-> rs[1], c |-> 1]} ELSE {})]

\* the undo records solve_itos pushes for the units it records, in the
\* order of rs
RECURSIVE ItosTrail(_, _)
ItosTrail(digs, rs) ==
    IF rs = <<>> THEN <<>>
    ELSE IF is_unit(Head(rs)) /\ Head(rs) \notin digs
    THEN <<TrailRec("erase_is_digit", Head(rs), 0)>>
         \o ItosTrail(digs \cup {Head(rs)}, Tail(rs))
    ELSE ItosTrail(digs, Tail(rs))

\* the units whose is_digit literal the context may hold true
ItosKnown == {{}, {<<"unit", "0">>}}

\* solve_itos on itos(n) = rs
SolveItos(rs, known) ==
    /\ LET r == solve_itos(m_is_digit, rs, known)
       IN  /\ m_is_digit' = r.digs
           /\ m_trail_stack' = m_trail_stack \o ItosTrail(m_is_digit, rs)
           /\ op_ret' = [op |-> "solve_itos", arg |-> rs, known |-> known,
                         digs |-> m_is_digit, ret |-> r.ret, lits |-> r.lits]
    /\ UNCHANGED <<fcVars, repVars, satVars, obsVars, m_nqs, vec_scopes, m_exclude,
                   m_trail_lim, m_axioms, m_axiom_set, m_axioms_head, m_has_length,
                   m_length, m_fixed, m_s_in_re, scope_snap, reVars,
                   m_length_limit_map, th_assumptions>>

InitSearch ==
    FcInit /\ RepInit /\ SatInit /\ ObsInit /\ ScInit /\ ReIdle /\ ResInit

SpecItos ==
    InitSearch /\ [][\E rs \in ItosInputs, known \in ItosKnown : SolveItos(rs, known)]_vars

\* the variables the handlers of the search control leave alone
SearchFrame ==
    UNCHANGED <<fc_pc, fc_attempted, fc_fired, fc_status, m_new_propagation,
                m_has_seq, m_split_w_len, m_eqs, m_ncs, m_lts, m_lts_checked,
                repVars, satVars, obsVars, m_nqs, vec_scopes, m_exclude,
                m_trail_stack, m_trail_lim, m_axioms, m_axiom_set, m_axioms_head, m_has_length,
                m_length, m_fixed, m_s_in_re, scope_snap, re_s, unf_active,
                re_true, re_queue, re_clauses, re_conflict, m_is_digit>>

\* m_params.m_arith_mode
ArithModes == {"AS_NO_ARITH", "AS_OLD_ARITH", "AS_NEW_ARITH", "AS_DIFF_LOGIC"}

\* a test of the arithmetic engine alone
InitSearchThrowsAnySeq(has_seq, as) == as \notin {"AS_OLD_ARITH", "AS_NEW_ARITH"}

\* the test of init_search_eh that throws
InitSearchThrows(has_seq, as) ==
    has_seq /\ as # "AS_OLD_ARITH" /\ as # "AS_NEW_ARITH"

\* init_search_eh: the automata table is reset before the test
InitSearchEh(as) ==
    /\ m_automata' = <<>>
    /\ op_ret' = [op |-> "init_search_eh", as |-> as,
                  thrown |-> IF InitSearchThrows(m_has_seq, as)
                             THEN "IncompatibleArithTheory" ELSE "none"]
    /\ UNCHANGED <<m_max_unfolding_depth, m_length_limit_map, th_assumptions>>
    /\ SearchFrame

\* the skolem literals of the search control
MaxUnfoldingLit(d) == [k |-> "max_unfolding", d |-> d]
LengthLimitLit(s, n) == [k |-> "length_limit", s |-> s, n |-> n]

\* add_length_limit on m_length_limit_map
add_length_limit(map, s, k) ==
    IF map[s] # 0 /\ k <= map[s] THEN map ELSE [map EXCEPT ![s] = k]

\* add_length_limit(s, m_max_unfolding_depth, true) during the search
AddLengthLimit(s) ==
    /\ m_has_seq
    /\ m_length_limit_map' = add_length_limit(m_length_limit_map, s, m_max_unfolding_depth)
    /\ op_ret' = [op |-> "add_length_limit",
                  lits |-> {MaxUnfoldingLit(m_max_unfolding_depth),
                            LengthLimitLit(s, m_max_unfolding_depth)}]
    /\ UNCHANGED <<m_automata, m_max_unfolding_depth, th_assumptions>>
    /\ SearchFrame

\* add_theory_assumptions
AddTheoryAssumptions ==
    /\ th_assumptions' =
            IF m_has_seq
            THEN {MaxUnfoldingLit(m_max_unfolding_depth)}
                 \cup {LengthLimitLit(s, m_length_limit_map[s]) :
                            s \in {v \in Vars : m_length_limit_map[v] # 0}}
            ELSE {}
    /\ op_ret' = [op |-> "add_theory_assumptions"]
    /\ UNCHANGED <<m_automata, m_max_unfolding_depth, m_length_limit_map>>
    /\ SearchFrame

\* the length_limit literals of an unsat core, the smallest limit among them
\* and the sequences that carry it
CoreLimits(core) == {l \in core : l.k = "length_limit"}
KMin(core) == CHOOSE n \in {l.n : l \in CoreLimits(core)} :
                 \A l \in CoreLimits(core) : n <= l.n
SMinChoices(core) ==
    IF CoreLimits(core) = {} THEN {NullTerm}
    ELSE {l.s : l \in {x \in CoreLimits(core) : x.n = KMin(core)}}

\* a depth that grows by half whenever the core has the max_unfolding literal
ResearchDepthUnfoldingFirst(d, core) ==
    IF \E l \in core : l.k = "max_unfolding" THEN (1 + 3 * d) \div 2
    ELSE IF CoreLimits(core) # {} THEN d + 1
    ELSE d

\* a depth that grows by (3d) / 2 on the max_unfolding literal
ResearchDepthNoRound(d, core) ==
    IF CoreLimits(core) # {} THEN d + 1
    ELSE IF \E l \in core : l.k = "max_unfolding" THEN (3 * d) \div 2
    ELSE d

\* the new m_max_unfolding_depth of should_research
ResearchDepth(d, core) ==
    IF CoreLimits(core) # {} THEN d + 1
    ELSE IF \E l \in core : l.k = "max_unfolding" THEN (1 + 3 * d) \div 2
    ELSE d

\* limits that are doubled for every length_limit literal of the core
ResearchLimitsAll(map, core, s_min) ==
    [s \in DOMAIN map |->
        IF \E l \in CoreLimits(core) : l.s = s
        THEN 2 * (CHOOSE n \in {l.n : l \in {x \in CoreLimits(core) : x.s = s}} : TRUE)
        ELSE map[s]]

\* the new m_length_limit_map of should_research: s_min is the sequence the
\* loop over the core ends with
ResearchLimits(map, core, s_min) ==
    IF CoreLimits(core) # {} THEN add_length_limit(map, s_min, 2 * KMin(core))
    ELSE map

\* should_research
should_research(core, has_seq, d, map, s_min) ==
    IF ~has_seq THEN [ret |-> FALSE, depth |-> d, map |-> map]
    ELSE [ret |-> CoreLimits(core) # {} \/ \E l \in core : l.k = "max_unfolding",
          depth |-> ResearchDepth(d, core),
          map |-> ResearchLimits(map, core, s_min)]

\* should_research on an unsat core made of assumptions of the search that
\* has ended; s_min is the choice the random tie-break makes
ShouldResearchCore(core, s_min) ==
    /\ m_max_unfolding_depth <= MaxDepth
    /\ LET r == should_research(core, m_has_seq, m_max_unfolding_depth,
                                m_length_limit_map, s_min)
       IN  /\ m_max_unfolding_depth' = r.depth
           /\ m_length_limit_map' = r.map
           /\ op_ret' = [op |-> "should_research", core |-> core, ret |-> r.ret,
                         d0 |-> m_max_unfolding_depth, map0 |-> m_length_limit_map,
                         s_min |-> s_min]
    /\ th_assumptions' = {}
    /\ UNCHANGED m_automata
    /\ SearchFrame

\* an assumption of the user
UserLit == [k |-> "other"]

SearchNext ==
    \/ \E as \in ArithModes : InitSearchEh(as)
    \/ \E s \in Vars : AddLengthLimit(s)
    \/ AddTheoryAssumptions
    \/ \E core \in SUBSET (th_assumptions \cup {UserLit}) :
          \E s_min \in SMinChoices(core) : ShouldResearchCore(core, s_min)

SpecSearch == InitSearch /\ [][SearchNext]_vars

\* ---------------------------------------------------------------------------
\* propagate_in_re.  In this part a regular expression is a term, an entry of
\* m_s_in_re is [lit, s, re, active], and m_automata holds <<re, compiled>>
\* for the expressions get_automaton has been asked for.  m_rewrite leaves
\* an intersection of these expressions as the term it is.
\* ---------------------------------------------------------------------------
VarZ == <<"var", "z">>

mk_complement(r) == <<"compl", r>>
mk_inter(a, b) == <<"inter", a, b>>

\* the regular expressions of the membership atoms
InReRegexes == {<<"re", n>> : n \in {"r1", "r2", "r3", "all", "none"}}

\* m_rewrite on the atom s in r: true for the full expression, false for the
\* empty one
RewriteInRe(r) ==
    IF r = <<"re", "all">> THEN "true"
    ELSE IF r = <<"re", "none">> THEN "false" ELSE "open"

\* the e-graph: x and y are in one class, z is alone
get_root(s) == IF s = VarY THEN VarX ELSE s

\* m_mk_aut: an expression built over r3 has no automaton
RECURSIVE Compiles(_)
Compiles(r) ==
    CASE r[1] = "re" -> r[2] # "r3"
      [] r[1] = "compl" -> Compiles(r[2])
      [] r[1] = "inter" -> Compiles(r[2]) /\ Compiles(r[3])

\* the automaton of a compiled expression: state 0 is initial; an expression
\* built over r2 has the epsilon moves 0 -> 1 -> 2
RECURSIVE EpsMoves(_)
EpsMoves(r) ==
    CASE r[1] = "re" -> IF r[2] = "r2" THEN {<<0, 1>>, <<1, 2>>} ELSE {}
      [] r[1] = "compl" -> EpsMoves(r[2])
      [] r[1] = "inter" -> EpsMoves(r[2]) \cup EpsMoves(r[3])

\* a closure that holds the state alone
InitStateOnly(q, eps) == {q}

\* automaton::get_epsilon_closure
get_epsilon_closure(q, eps) ==
    LET RECURSIVE Close(_)
        Close(S) ==
            LET T == S \cup {mv[2] : mv \in {m \in eps : m[1] \in S}}
            IN  IF T = S THEN S ELSE Close(T)
    IN  Close({q})

\* literals of the clause: a membership atom, an equality, an accept atom
InReLit(s, r, sign) == [k |-> "in_re", s |-> s, r |-> r, sign |-> sign]
EqLit(a, b, sign) == [k |-> "eq", a |-> a, b |-> b, sign |-> sign]
AcceptLit(s, idx, re, q) ==
    [k |-> "accept", s |-> s, i |-> idx, re |-> re, q |-> q, sign |-> TRUE]
Neg(l) == [l EXCEPT !.sign = ~l.sign]

\* the literals of an entry without the negated literal of the entry
InReEntryLitsEqOnly(entry, s) ==
    IF entry.s # s THEN {EqLit(entry.s, s, FALSE)} ELSE {}

\* the literals the loop of propagate_in_re collects for an entry it
\* deactivates
InReEntryLits(entry, s) ==
    {Neg(entry.lit)} \cup (IF entry.s # s THEN {EqLit(entry.s, s, FALSE)} ELSE {})

\* the loop of propagate_in_re over m_s_in_re, from entry i on
RECURSIVE InReLoop(_, _, _, _, _)
InReLoop(entries, i, s, re, lits) ==
    IF i > Len(entries) THEN [entries |-> entries, re |-> re, lits |-> lits]
    ELSE LET entry == entries[i]
         IN  IF entry.active /\ get_root(entry.s) = get_root(s) /\ entry.re # re
             THEN InReLoop([entries EXCEPT ![i].active = FALSE], i + 1, s,
                           mk_inter(entry.re, re),
                           lits \cup InReEntryLits(entry, s))
             ELSE InReLoop(entries, i + 1, s, re, lits)

\* get_automaton on m_automata: the table answers for an expression it holds
get_automaton(auts, re) ==
    IF \E i \in 1..Len(auts) : auts[i][1] = re THEN auts
    ELSE Append(auts, <<re, Compiles(re)>>)

\* a push_back that is not kept from a null automaton
InRePushAlways(entries, e, a) == Append(entries, e)

\* m_s_in_re.push_back, reached only past the test of the automaton
InRePush(entries, e, a) == IF a THEN Append(entries, e) ELSE entries

\* propagate_in_re(n, is_true) for the atom n = (s in r)
propagate_in_re(entries, auts, s, r, is_true) ==
    LET rw == RewriteInRe(r)
        lit == InReLit(s, r, is_true)
        loop == InReLoop(entries, 1, s, IF is_true THEN r ELSE mk_complement(r), {})
        a == Compiles(loop.re)
        states == get_epsilon_closure(0, EpsMoves(loop.re))
        clause == loop.lits \cup {Neg(lit)}
                  \cup {AcceptLit(s, 0, loop.re, q) : q \in states}
    IN  IF rw # "open"
        THEN [entries |-> entries, auts |-> auts, thrown |-> "none",
              conflict |-> (rw = "true") # is_true, tracked |-> FALSE,
              lit |-> lit, re |-> r, clause |-> {}, how |-> "none"]
        ELSE [entries |-> InRePush(loop.entries,
                                   [lit |-> lit, s |-> s, re |-> loop.re,
                                    active |-> TRUE], a),
              auts |-> get_automaton(auts, loop.re),
              thrown |-> IF a THEN "none" ELSE "UnsupportedRegex",
              conflict |-> FALSE, tracked |-> TRUE,
              lit |-> lit, re |-> loop.re,
              clause |-> IF a THEN clause ELSE {},
              how |-> IF ~a THEN "none"
                      ELSE IF Cardinality(clause) = 2 THEN "propagate_lit"
                      ELSE "mk_th_axiom"]

\* assign_eh on a membership atom: propagate_in_re
AssignInRe(s, r, is_true) ==
    /\ Len(m_s_in_re) < MaxStore
    /\ \A i \in 1..Len(m_s_in_re) : m_s_in_re[i].lit.s # s \/ m_s_in_re[i].lit.r # r
    /\ LET res == propagate_in_re(m_s_in_re, m_automata, s, r, is_true)
       IN  /\ m_s_in_re' = res.entries
           /\ m_automata' = res.auts
           /\ op_ret' = [op |-> "propagate_in_re", before |-> m_s_in_re,
                         thrown |-> res.thrown, conflict |-> res.conflict,
                         tracked |-> res.tracked, lit |-> res.lit, re |-> res.re,
                         clause |-> res.clause, how |-> res.how]
    /\ UNCHANGED <<fc_pc, fc_attempted, fc_fired, fc_status, m_new_propagation,
                   m_has_seq, m_split_w_len, m_eqs, m_ncs, m_lts, m_lts_checked,
                   repVars, satVars, obsVars, m_nqs, vec_scopes, m_exclude,
                   m_trail_stack, m_trail_lim, m_axioms, m_axiom_set,
                   m_axioms_head, m_has_length, m_length, m_fixed, scope_snap,
                   reVars, m_length_limit_map, m_is_digit, th_assumptions>>

SpecInRe ==
    InitSearch
    /\ [][\E s \in {VarX, VarY, VarZ}, r \in InReRegexes, is_true \in BOOLEAN :
            AssignInRe(s, r, is_true)]_vars

\* ---------------------------------------------------------------------------
\* propagate_accept / propagate_step: what they hand to the context.  A
\* literal of a clause is <<sign, atom>>; a propagation is <<antecedent,
\* consequent>>.  The automaton of the expression is Aut, which
\* get_automaton has in its table once propagate_in_re has run.
\* ---------------------------------------------------------------------------
Pos(atom) == <<TRUE, atom>>
NegOf(atom) == <<FALSE, atom>>

\* the atoms len(s) <= idx and len(s) >= idx, and the guard of a move at idx
LenLe(idx) == [k |-> "len_le", i |-> idx]
LenGe(idx) == [k |-> "len_ge", i |-> idx]
GuardAt(idx, c) == [k |-> "nth_is", i |-> idx, c |-> c]

\* null_literal
NullLit == [k |-> "null"]

\* m_max_unfolding_lit: the literal add_theory_assumptions has made for the
\* search that is running
m_max_unfolding_lit ==
    IF \E l \in th_assumptions : l.k = "max_unfolding"
    THEN CHOOSE l \in th_assumptions : l.k = "max_unfolding"
    ELSE NullLit

\* the body of propagate_accept past is_accept: sink, final and mvs are what
\* the automaton answers for the state of lit, over is the test on the
\* unfolding depth
accept_outcome(lit, sink, final, mvs, over, unf_lit) ==
    IF sink
    THEN [conflict |-> TRUE, js |-> {lit}, props |-> {}, clause |-> {}]
    ELSE [conflict |-> FALSE, js |-> {},
          props |->
              {<<lit, IF final THEN Pos(LenGe(lit.i)) ELSE NegOf(LenLe(lit.i))>>}
              \cup (IF over THEN {<<lit, NegOf(unf_lit)>>} ELSE {}),
          clause |->
              {NegOf(lit)}
              \cup (IF final THEN {Pos(LenLe(lit.i))} ELSE {})
              \cup {Pos(mk_step(lit.i, lit.q, mv[3], mv[2])) : mv \in mvs}]

\* a propagate_accept that unfolds a sink state like any other
propagate_accept_past_sink(lit, depth, unf_lit, lvl) ==
    accept_outcome(lit, FALSE, is_final_state(lit.q), get_moves_from(lit.q),
                   lit.i > depth /\ unf_lit # NullLit /\ lvl > 0, unf_lit)

\* a propagate_accept that takes every state for a non-final one
propagate_accept_no_final(lit, depth, unf_lit, lvl) ==
    accept_outcome(lit, is_sink_state(lit.q), FALSE, get_moves_from(lit.q),
                   lit.i > depth /\ unf_lit # NullLit /\ lvl > 0, unf_lit)

\* a propagate_accept that does not look at the scope level
propagate_accept_any_level(lit, depth, unf_lit, lvl) ==
    accept_outcome(lit, is_sink_state(lit.q), is_final_state(lit.q),
                   get_moves_from(lit.q),
                   lit.i > depth /\ unf_lit # NullLit, unf_lit)

\* propagate_accept(lit, acc): depth is m_max_unfolding_depth, unf_lit is
\* m_max_unfolding_lit, lvl is ctx.get_scope_level()
propagate_accept(lit, depth, unf_lit, lvl) ==
    accept_outcome(lit, is_sink_state(lit.q), is_final_state(lit.q),
                   get_moves_from(lit.q),
                   lit.i > depth /\ unf_lit # NullLit /\ lvl > 0, unf_lit)

\* a propagate_step that always propagates the length literal
propagate_step_always_length(lit, lo) ==
    {<<lit, Pos(GuardAt(lit.i, lit.c))>>,
     <<lit, NegOf(LenLe(lit.i))>>,
     <<lit, Pos(mk_accept(lit.i + 1, lit.j))>>}

\* propagate_step(lit, step): lo is the lower bound the arithmetic solver
\* has for len(s), -1 when it has none
propagate_step(lit, lo) ==
    {<<lit, Pos(GuardAt(lit.i, lit.c))>>}
    \cup (IF lo >= 0 /\ lo >= lit.i THEN {} ELSE {<<lit, NegOf(LenLe(lit.i))>>})
    \cup {<<lit, Pos(mk_accept(lit.i + 1, lit.j))>>}

UnfoldFrame ==
    UNCHANGED <<fc_pc, fc_attempted, fc_fired, fc_status, m_has_seq,
                m_split_w_len, m_eqs, m_ncs, m_automata, m_lts, m_lts_checked,
                repVars, satVars, obsVars, scVars, reVars,
                m_length_limit_map, m_is_digit, th_assumptions>>

\* assign_eh on an accept literal made true at scope level lvl
AssignAccept(idx, q, lvl) ==
    /\ LET lit == mk_accept(idx, q)
           out == propagate_accept(lit, m_max_unfolding_depth,
                                   m_max_unfolding_lit, lvl)
       IN  op_ret' = [op |-> "propagate_accept", lit |-> lit,
                      depth |-> m_max_unfolding_depth,
                      unf_lit |-> m_max_unfolding_lit, lvl |-> lvl,
                      conflict |-> out.conflict, js |-> out.js,
                      props |-> out.props, clause |-> out.clause]
    /\ m_new_propagation' = TRUE
    /\ UnfoldFrame

\* assign_eh on a step literal made true
AssignStep(mv, idx, lo) ==
    /\ LET lit == mk_step(idx, mv[1], mv[3], mv[2])
       IN  op_ret' = [op |-> "propagate_step", lit |-> lit, lo |-> lo,
                      props |-> propagate_step(lit, lo)]
    /\ m_new_propagation' = TRUE
    /\ UnfoldFrame

UnfoldNext ==
    \/ AddTheoryAssumptions
    \/ \E core \in SUBSET (th_assumptions \cup {UserLit}) :
          \E s_min \in SMinChoices(core) : ShouldResearchCore(core, s_min)
    \/ \E idx \in 0..MaxLen, q \in Aut.states, lvl \in 0..1 : AssignAccept(idx, q, lvl)
    \/ \E mv \in Aut.moves, idx \in 0..MaxLen, lo \in -1..MaxLen : AssignStep(mv, idx, lo)

SpecUnfold == InitSearch /\ [][UnfoldNext]_vars

\* ---------------------------------------------------------------------------
\* check_lts.  In this part an entry of m_lts is [p, val]: the lt/le atom
\* assign_eh was given and the truth value the context holds for it.
\* ---------------------------------------------------------------------------
LtTerms == {VarX, VarY, VarZ}

\* the atoms str.< and str.<= over these terms
LtAtoms ==
    {[k |-> k, a |-> a, b |-> b] : k \in {"lt", "le"}, a \in LtTerms, b \in LtTerms}

\* an entry as the loops of check_lts read it: a false literal is negated and
\* its sides are swapped
LtRead(entry) ==
    IF entry.val
    THEN [a |-> entry.p.a, b |-> entry.p.b, r |-> Pos(entry.p),
          strict |-> entry.p.k = "lt"]
    ELSE [a |-> entry.p.b, b |-> entry.p.a, r |-> NegOf(entry.p),
          strict |-> entry.p.k = "le"]

\* the axiom check_lts adds for the entries e1, e2 read as a <| b and c <| d
LtAxiom(e1, e2) ==
    LET r1 == LtRead(e1)
        r2 == LtRead(e2)
    IN  [r1 |-> r1.r, r2 |-> r2.r,
         eq |-> IF r1.b = r2.a THEN "true" ELSE [k |-> "eq", a |-> r1.b, b |-> r2.a],
         concl |-> [k |-> IF r1.strict \/ r2.strict THEN "lt" ELSE "le",
                    a |-> r1.a, b |-> r2.b]]

\* the pairs of positions the two loops of check_lts visit
LtPairs(sz) == {ij \in (1..sz) \X (1..sz) : ij[1] < ij[2]}

\* a check_lts that does not set the flag
check_lts_no_flag(ts, lts) ==
    IF lts = <<>> \/ ts.lts_checked THEN [ret |-> FALSE, ts |-> ts, axioms |-> {}]
    ELSE [ret |-> TRUE, ts |-> ts,
          axioms |->
              {LtAxiom(lts[ij[1]], lts[ij[2]]) :
                  ij \in {p \in LtPairs(Len(lts)) :
                            get_root(LtRead(lts[p[1]]).b)
                                = get_root(LtRead(lts[p[2]]).a)}}]

\* check_lts
check_lts(ts, lts) ==
    IF lts = <<>> \/ ts.lts_checked THEN [ret |-> FALSE, ts |-> ts, axioms |-> {}]
    ELSE [ret |-> TRUE,
          ts |-> [TrailPush(ts, TrailRec("value_lts_checked", 0, ts.lts_checked))
                    EXCEPT !.lts_checked = TRUE],
          axioms |->
              {LtAxiom(lts[ij[1]], lts[ij[2]]) :
                  ij \in {p \in LtPairs(Len(lts)) :
                            get_root(LtRead(lts[p[1]]).b)
                                = get_root(LtRead(lts[p[2]]).a)}}]

\* assign_eh on an lt/le atom: m_lts.push_back
AssignLtLe(p, val) ==
    /\ Len(m_lts) < MaxStore
    /\ m_lts' = Append(m_lts, [p |-> p, val |-> val])
    /\ op_ret' = [op |-> "assign_eh"]
    /\ UNCHANGED <<fc_pc, fc_attempted, fc_fired, fc_status, m_new_propagation,
                   m_has_seq, m_split_w_len, m_eqs, m_ncs, m_automata,
                   m_lts_checked, repVars, satVars, obsVars, scVars, reVars,
                   m_length_limit_map, m_is_digit, th_assumptions>>

\* check_lts as final_check_eh calls it
FinalCheckLts ==
    /\ Len(m_trail_stack) < MaxTrail
    /\ LET r == check_lts(TS, m_lts)
       IN  /\ SetTS(r.ts)
           /\ op_ret' = [op |-> "check_lts", ret |-> r.ret, axioms |-> r.axioms,
                         lts |-> m_lts, checked |-> m_lts_checked]
    /\ TrailFrame
    /\ UNCHANGED <<m_length_limit_map, m_is_digit, th_assumptions>>

LtsNext ==
    \/ PushScopeEh /\ op_ret' = [op |-> "push_scope_eh"]
         /\ UNCHANGED <<m_length_limit_map, m_is_digit, th_assumptions>>
    \/ \E n \in 1..MaxScopes : PopScopeEh(n) /\ op_ret' = [op |-> "pop_scope_eh"]
         /\ UNCHANGED <<m_length_limit_map, m_is_digit, th_assumptions>>
    \/ \E p \in LtAtoms, val \in BOOLEAN : AssignLtLe(p, val)
    \/ FinalCheckLts

SpecLts == InitScope /\ [][LtsNext]_vars

\* ---------------------------------------------------------------------------
\* Not-contains constraints.  In this part an entry of m_ncs is
\* [contains, len_gt]: the atom contains(a, b) and the guard literal.
\* ---------------------------------------------------------------------------
\* the atom contains(a, b): a is the sequence searched, b the one looked for
mk_contains(a, b) == [k |-> "contains", a |-> a, b |-> b]

\* the atoms assign_eh is given
ContainsAtoms ==
    {mk_contains(a, b) :
        a \in {VarX, mk_concat(VarX, Empty)}, b \in {VarY, StrAB}}

\* the arithmetic terms and atoms of the guard
mk_sub(s, t) == <<"sub", s, t>>
mk_le(t, n) == [k |-> "le", t |-> t, n |-> n]

\* a guard with the two lengths exchanged
mk_len_gt_exchanged(se1, se2) == mk_le(mk_sub(mk_length(se2), mk_length(se1)), -1)

\* the guard literal assign_eh makes for a false contains(e1, e2); se1 and
\* se2 are e1 and e2 rewritten
mk_len_gt(se1, se2) == mk_le(mk_sub(mk_length(se1), mk_length(se2)), -1)

\* the truth values of the context
LBool == {"l_true", "l_undef", "l_false"}

NcFrame ==
    UNCHANGED <<fc_pc, fc_attempted, fc_fired, fc_status, m_has_seq,
                m_split_w_len, m_eqs, m_automata, m_lts, repVars, satVars,
                obsVars, m_nqs, vec_scopes, m_exclude, m_trail_lim, scope_snap,
                reVars, m_length_limit_map, m_is_digit, th_assumptions>>

\* assign_eh on a contains atom made false; canon is what canonizes(false, e)
\* returns
AssignNotContains(e, canon) ==
    /\ Len(m_ncs) < MaxStore
    /\ \A i \in 1..Len(m_ncs) : m_ncs[i].contains # e
    /\ LET se1 == Rewrite(e.a)
           se2 == Rewrite(e.b)
           len_gt == mk_len_gt(se1, se2)
       IN  /\ m_ncs' = IF canon THEN m_ncs
                       ELSE Append(m_ncs, [contains |-> e, len_gt |-> len_gt])
           /\ op_ret' = [op |-> "assign_eh", e |-> e, stored |-> ~canon,
                         non_empty |-> IF canon THEN {} ELSE {se2},
                         force_phase |-> IF canon THEN {} ELSE {len_gt}]
    /\ UNCHANGED <<m_new_propagation, m_lts_checked, trailVars>>
    /\ NcFrame

\* a solve_nc that takes an undecided guard for a true one
solve_nc_undef_done(st, idx, val, confl) ==
    LET n == st.ncs[idx]
    IN  IF val \in {"l_true", "l_undef"}
        THEN [done |-> TRUE,
              st |-> [st EXCEPT !.ts = AddLengthToEqcTS(
                                         AddLengthToEqcTS(st.ts, n.contains.a),
                                         n.contains.b),
                                !.visited = Append(@, n)]]
        ELSE [done |-> TRUE,
              st |-> [st EXCEPT !.unrolled = @ \cup {n.contains},
                                !.inc = confl,
                                !.visited = Append(@, n)]]

\* solve_nc(idx): val is the value of the guard literal in the context,
\* confl tells whether the axioms of unroll_not_contains leave the context
\* inconsistent
solve_nc(st, idx, val, confl) ==
    LET n == st.ncs[idx]
    IN  CASE val = "l_true" ->
               [done |-> TRUE,
                st |-> [st EXCEPT !.ts = AddLengthToEqcTS(
                                           AddLengthToEqcTS(st.ts, n.contains.a),
                                           n.contains.b),
                                  !.visited = Append(@, n)]]
          [] val = "l_undef" ->
               [done |-> FALSE,
                st |-> [st EXCEPT !.relevant = @ \cup {n.len_gt},
                                  !.np = TRUE,
                                  !.visited = Append(@, n)]]
          [] val = "l_false" ->
               [done |-> TRUE,
                st |-> [st EXCEPT !.unrolled = @ \cup {n.contains},
                                  !.inc = confl,
                                  !.visited = Append(@, n)]]

\* the loop of check_contains from position i on
RECURSIVE check_contains(_, _, _, _)
check_contains(st0, i, vals, confl) ==
    With(st0, LAMBDA st :
        IF st.inc \/ i > Len(st.ncs) THEN st
        ELSE With(solve_nc(st, i, vals[st.ncs[i]], st.ncs[i] \in confl), LAMBDA s :
                IF s.done
                THEN check_contains([s.st EXCEPT !.ncs = EraseAndSwap(@, i)], i,
                                    vals, confl)
                ELSE check_contains(s.st, i + 1, vals, confl)))

\* check_contains as final_check_eh calls it
FinalCheckContains(vals, confl) ==
    /\ m_ncs # <<>>
    /\ LET r == check_contains([ncs |-> m_ncs, ts |-> TS, visited |-> <<>>,
                                relevant |-> {}, unrolled |-> {},
                                np |-> m_new_propagation, inc |-> FALSE],
                               1, vals, confl)
       IN  /\ m_ncs' = r.ncs
           /\ SetTS(r.ts)
           /\ m_new_propagation' = r.np
           /\ op_ret' = [op |-> "check_contains", ncs |-> m_ncs, vals |-> vals,
                         visited |-> r.visited, relevant |-> r.relevant,
                         unrolled |-> r.unrolled, inc |-> r.inc,
                         has_length |-> m_has_length,
                         ret |-> r.np \/ r.inc]
    /\ NcFrame

NcNext ==
    \/ \E e \in ContainsAtoms, canon \in BOOLEAN : AssignNotContains(e, canon)
    \/ \E vals \in [Range(m_ncs) -> LBool], confl \in SUBSET Range(m_ncs) :
          FinalCheckContains(vals, confl)

SpecNc == InitScope /\ [][NcNext]_vars

\* ---------------------------------------------------------------------------
\* fixed_length: unfolding of a variable whose length is determined
\* ---------------------------------------------------------------------------
\* skolem terms over a sequence
mk_skolem(kind, s) == <<"sk", kind, s>>
is_skolem(kind, e) == e[1] = "sk" /\ e[2] = kind
mk_tail(s, i) == <<"sk", "seq.tail", s, i>>
mk_nth(s, i) == <<"nth", s, i>>
mk_unit(c) == <<"unit", c>>

\* the skolem kinds fixed_length leaves alone, and one it does not
FixedExcluded == {"seq.tail", "seq.first", "seq.indexof_left", "seq.indexof_right"}
FixedSkolems == FixedExcluded \cup {"seq.align"}

\* theory_seq::is_var on the terms of this part: variables and skolem terms
\* are neither concatenations, empty, strings nor units
is_var_term(e) == is_var(e) \/ e[1] = "sk"

\* the sequences whose length terms are tracked
FixTerms == {VarX, StrAB} \cup {mk_skolem(k, VarX) : k \in FixedSkolems}

\* what lower_bound and upper_bound report for a length term: no bound, or a
\* number
NoBound == -1
MaxFix == 2
FixBounds == {<<NoBound, NoBound>>, <<0, 0>>, <<0, MaxFix>>, <<MaxFix, MaxFix>>}

\* seq_skolem::decompose on a variable or on what is left of one
decompose(seq) ==
    IF seq[1] = "sk" /\ seq[2] = "seq.tail" /\ Len(seq) = 4
    THEN [head |-> mk_unit(mk_nth(seq[3], seq[4] + 1)),
          tail |-> mk_tail(seq[3], seq[4] + 1)]
    ELSE [head |-> mk_unit(mk_nth(seq, 0)), tail |-> mk_tail(seq, 0)]

\* the loop of fixed_length that takes _lo elements off seq
RECURSIVE FixedElems(_, _)
FixedElems(seq, n) ==
    IF n = 0 THEN <<>>
    ELSE With(decompose(seq), LAMBDA d : <<d.head>> \o FixedElems(d.tail, n - 1))

\* mk_concat(n, es) for n >= 1
RECURSIVE mk_concat_n(_)
mk_concat_n(es) ==
    IF Len(es) = 1 THEN es[1] ELSE mk_concat(es[1], mk_concat_n(Tail(es)))

\* the axiom of fixed_length: ~a \/ b
FixedAxiom(len_e, lo, seq) ==
    [a |-> [k |-> "eq", l |-> len_e, r |-> lo],
     b |-> [k |-> "seq_eq", l |-> seq, r |-> len_e[2]]]

\* a fixed_length that does not look at m_fixed
fixed_length_again(ts, len_e, is_zero, lo, hi, base) ==
    LET e == len_e[2]
    IN  IF ~(is_var_term(e) /\ lo # NoBound /\ hi # NoBound /\ lo = hi
             /\ ((is_zero /\ lo = 0) \/ (~is_zero /\ lo >= 0)))
        THEN [ret |-> FALSE, ts |-> ts, axioms |-> {}]
        ELSE IF \E k \in FixedExcluded : is_skolem(k, e)
        THEN [ret |-> FALSE, ts |-> ts, axioms |-> {}]
        ELSE LET ts1 == [TrailPush(ts, TrailRec("erase_fixed", e, 0))
                            EXCEPT !.fixed = ts.fixed \cup {e}]
                 seq == IF lo = 0 THEN Empty
                        ELSE IF ~is_zero THEN mk_concat_n(FixedElems(e, lo))
                        ELSE e
                 ts2 == IF base THEN ts1
                        ELSE TrailPush(ts1, TrailRec("push_replay", len_e, 0))
             IN  [ret |-> TRUE, ts |-> ts2,
                  axioms |-> {FixedAxiom(len_e, lo, seq)}]

\* fixed_length(len_e, is_zero); lo and hi are what lower_bound and
\* upper_bound report (NoBound: none), base is ctx.at_base_level()
fixed_length(ts, len_e, is_zero, lo, hi, base) ==
    LET e == len_e[2]
    IN  IF ~(is_var_term(e) /\ lo # NoBound /\ hi # NoBound /\ lo = hi
             /\ ((is_zero /\ lo = 0) \/ (~is_zero /\ lo >= 0)))
        THEN [ret |-> FALSE, ts |-> ts, axioms |-> {}]
        ELSE IF (\E k \in FixedExcluded : is_skolem(k, e)) \/ e \in ts.fixed
        THEN [ret |-> FALSE, ts |-> ts, axioms |-> {}]
        ELSE LET ts1 == [TrailPush(ts, TrailRec("erase_fixed", e, 0))
                            EXCEPT !.fixed = ts.fixed \cup {e}]
                 seq == IF lo = 0 THEN Empty
                        ELSE IF ~is_zero THEN mk_concat_n(FixedElems(e, lo))
                        ELSE e
                 ts2 == IF base THEN ts1
                        ELSE TrailPush(ts1, TrailRec("push_replay", len_e, 0))
             IN  [ret |-> TRUE, ts |-> ts2,
                  axioms |-> {FixedAxiom(len_e, lo, seq)}]

\* fixed_length(is_zero): the loop over m_length from position i on
RECURSIVE fixed_length_all(_, _, _, _, _)
fixed_length_all(st0, i, is_zero, bnds, base) ==
    With(st0, LAMBDA st :
        IF i > Len(st.ts.length) THEN st
        ELSE With(fixed_length(st.ts, st.ts.length[i], is_zero,
                               bnds[st.ts.length[i][2]][1],
                               bnds[st.ts.length[i][2]][2], base), LAMBDA r :
                fixed_length_all([found |-> st.found \/ r.ret, ts |-> r.ts,
                                  axioms |-> st.axioms \cup r.axioms],
                                 i + 1, is_zero, bnds, base)))

\* the scope at which each marked variable was marked: the number of scope
\* marks below its record on the trail
FixedMarks ==
    [e \in m_fixed |->
        LET pos == CHOOSE p \in 1..Len(m_trail_stack) :
                       /\ m_trail_stack[p].k = "erase_fixed"
                       /\ m_trail_stack[p].a = e
        IN  Cardinality({j \in 1..Len(m_trail_lim) : m_trail_lim[j] < pos})]

\* what the handlers of this part record besides their own results
FixedSeen == [fixed |-> m_fixed, marks |-> FixedMarks]

FixedRest == UNCHANGED <<m_length_limit_map, m_is_digit, th_assumptions>>

\* add_length_to_eqc on a sequence that has no length term yet
FixedAddLength(e) ==
    /\ Len(m_length) < MaxStore
    /\ e \notin m_has_length
    /\ SetTS(AddLengthToEqcTS(TS, e))
    /\ op_ret' = [op |-> "add_length_to_eqc", seen |-> FixedSeen]
    /\ TrailFrame
    /\ FixedRest

\* fixed_length(is_zero) as final_check_eh calls it
FinalFixedLength(is_zero, bnds) ==
    /\ m_length # <<>>
    /\ LET r == fixed_length_all([found |-> FALSE, ts |-> TS, axioms |-> {}],
                                 1, is_zero, bnds, ScopeLevel = 0)
       IN  /\ SetTS(r.ts)
           /\ op_ret' = [op |-> "fixed_length", is_zero |-> is_zero,
                         bnds |-> bnds, length |-> m_length, ret |-> r.found,
                         axioms |-> r.axioms, seen |-> FixedSeen]
    /\ TrailFrame
    /\ FixedRest

FixedNext ==
    \/ PushScopeEh /\ op_ret' = [op |-> "push_scope_eh", seen |-> FixedSeen]
         /\ FixedRest
    \/ \E n \in 1..MaxScopes :
          PopScopeEh(n) /\ op_ret' = [op |-> "pop_scope_eh", seen |-> FixedSeen]
            /\ FixedRest
    \/ \E e \in FixTerms : FixedAddLength(e)
    \/ \E is_zero \in BOOLEAN :
          \E bnds \in [{m_length[i][2] : i \in 1..Len(m_length)} -> FixBounds] :
             FinalFixedLength(is_zero, bnds)

SpecFixed == InitScope /\ [][FixedNext]_vars

\* ---------------------------------------------------------------------------
\* check_extensionality over the theory variables.  The inputs of one call
\* are the record [owners, root, relevant, shared, diseq]: the owner of each
\* theory variable, the variable of the root of its enode, the variables
\* whose enode is relevant, those whose enode is shared, and the pairs of
\* variables the e-graph knows to be different.
\* ---------------------------------------------------------------------------
\* a term of a regular-expression sort
ExtRe == <<"re", "r1">>

\* m_util.is_seq on the owners of this part
ext_is_seq(o) == o[1] # "re"


\* ctx.is_diseq
ExtIsDiseq(in, v1, v2) == {v1, v2} \in in.diseq

\* the owners of the theory variables, in the order the variables were made
ExtOwners ==
    { <<VarX, VarY, mk_ite("c1", UnitA, VarY)>>,
      <<mk_concat(UnitA, VarX), mk_concat(UnitA, VarY), ExtRe>>,
      <<VarX, UnitA, UnitB>> }
ExtVars == 1..3

\* the e-graphs check_extensionality is run on
ExtRoots ==
    { [v \in ExtVars |-> v],
      [v \in ExtVars |-> IF v = 2 THEN 1 ELSE v],
      [v \in ExtVars |-> IF v = 1 THEN 3 ELSE v] }
ExtSubsets == {ExtVars, ExtVars \ {1}}
ExtDiseqs == {{}, {{1, 2}}}
ExtInputs ==
    {in \in [owners : ExtOwners, root : ExtRoots, relevant : ExtSubsets,
             shared : ExtSubsets, diseq : ExtDiseqs] :
        in.relevant = ExtVars \/ in.shared = in.relevant}

\* the test on n1 without the test for a shared enode
ext_candidate_unshared(in, seqs, v) ==
    seqs # <<>> /\ v \in in.relevant /\ ext_is_seq(in.owners[v])

\* the test on n1 before it is paired with the variables in seqs
ext_candidate(in, seqs, v) ==
    seqs # <<>> /\ v \in in.relevant /\ ext_is_seq(in.owners[v]) /\ v \in in.shared

\* the inner loop of check_extensionality: n1 = v against seqs from
\* position k on; e1 is the canonical form of the owner of n1
RECURSIVE ext_pairs(_, _, _, _, _)
ext_pairs(st0, in, v, k, e1) ==
    With(st0, LAMBDA st :
        IF k > Len(st.seqs) THEN st
        ELSE LET v2 == st.seqs[k]
                 o1 == in.owners[v]
                 o2 == in.owners[v2]
                 next(s) == ext_pairs(s, in, v, k + 1, e1)
             IN  IF ext_is_seq(o1) # ext_is_seq(o2) THEN next(st)
                 ELSE IF ExtIsDiseq(in, v, v2) \/ ExcludeContains(st.ex, o1, o2)
                 THEN next(st)
                 ELSE With(Canonize(m_map, o2, st.cache), LAMBDA c2 :
                        IF ~c2.ok
                        THEN [st EXCEPT !.cache = c2.cache, !.done = TRUE,
                                        !.ret = FALSE]
                        ELSE With(reduce_eq(e1, c2.e), LAMBDA r :
                               IF ~r.ok
                               THEN next([st EXCEPT !.cache = c2.cache,
                                             !.ex = ExcludeUpdate(st.ex, o1, o2)])
                               ELSE IF \E i \in 1..Len(r.eqs) :
                                          ExcludeContains(st.ex, r.eqs[i][1],
                                                          r.eqs[i][2])
                               THEN next([st EXCEPT !.cache = c2.cache])
                               ELSE [st EXCEPT !.cache = c2.cache,
                                               !.done = TRUE, !.ret = FALSE,
                                               !.assumed = {<<v, v2>>}])))

\* check_extensionality: the loop over the theory variables from v on
RECURSIVE check_extensionality(_, _, _)
check_extensionality(st0, in, v) ==
    With(st0, LAMBDA st :
        IF st.done \/ v > Len(in.owners) THEN st
        ELSE IF in.root[v] # v THEN check_extensionality(st, in, v + 1)
        ELSE IF ext_candidate(in, st.seqs, v)
        THEN With(Canonize(m_map, in.owners[v], st.cache), LAMBDA c1 :
               IF ~c1.ok
               THEN [st EXCEPT !.cache = c1.cache, !.done = TRUE, !.ret = FALSE]
               ELSE With(ext_pairs([st EXCEPT !.cache = c1.cache], in, v, 1, c1.e),
                         LAMBDA s :
                           check_extensionality(
                               [s EXCEPT !.seqs = Append(s.seqs, v)], in, v + 1)))
        ELSE check_extensionality([st EXCEPT !.seqs = Append(st.seqs, v)],
                                  in, v + 1))

\* check_extensionality as final_check_eh calls it
FinalCheckExtensionality(in) ==
    /\ LET r == check_extensionality(
                    [ex |-> m_exclude, cache |-> m_cache, seqs |-> <<>>,
                     done |-> FALSE, ret |-> TRUE, assumed |-> {}], in, 1)
       IN  /\ m_exclude' = r.ex
           /\ m_cache' = r.cache
           /\ op_ret' = [op |-> "check_extensionality", in |-> in,
                         exclude |-> m_exclude, ret |-> r.ret,
                         assumed |-> r.assumed]
    /\ UNCHANGED <<fcVars, m_map, m_updates, m_limit, satVars, obsVars, m_nqs,
                   vec_scopes, trailVars, scope_snap, reVars,
                   m_length_limit_map, m_is_digit, th_assumptions>>

\* new_diseq_eh on the two variables
ExtNewDiseq(e1, e2) ==
    /\ Len(m_nqs) < MaxStore
    /\ NewDiseqEh(e1, e2)
    /\ op_ret' = [op |-> "new_diseq_eh"]
    /\ UNCHANGED <<m_length_limit_map, m_is_digit, th_assumptions>>

ExtNext ==
    \/ \E e1 \in Vars : \E e2 \in Vars \ {e1} : ExtNewDiseq(e1, e2)
    \/ \E in \in ExtInputs : FinalCheckExtensionality(in)

SpecExt == InitScope /\ [][ExtNext]_vars

\* ---------------------------------------------------------------------------
\* expand as the solver calls it: what it returns, marks and caches
\* ---------------------------------------------------------------------------
\* the terms handed to expand
ExpandTerms ==
    CanonTerms \cup
    { VarY,
      mk_concat(mk_ite("c1", VarY, StrAB), VarX),
      mk_ite("c1", VarX, mk_concat(VarX, VarY)) }

ExpandRest == UNCHANGED <<m_length_limit_map, m_is_digit, th_assumptions>>

\* expand(e, eqs, result) with eqs empty at the call
ExpandCall(e) ==
    /\ LET r == Exp(m_map, e, m_cache, ExpandFuel)
       IN  /\ m_cache' = r.cache
           /\ m_new_propagation' = (m_new_propagation \/ r.rel # {})
           /\ op_ret' = [op |-> "expand", e0 |-> e, ok |-> r.ok, e |-> r.e,
                         d |-> r.d, relevant |-> r.rel, cache |-> m_cache,
                         np |-> m_new_propagation]
    /\ UNCHANGED <<fc_pc, fc_attempted, fc_fired, fc_status, m_has_seq,
                   m_split_w_len, m_eqs, m_ncs, m_automata, m_lts, m_lts_checked,
                   m_map, m_updates, m_limit, satVars, obsVars, scVars, reVars>>
    /\ ExpandRest

ExpandNext ==
    \/ PushScopeEh /\ op_ret' = [op |-> "push_scope_eh"] /\ ExpandRest
    \/ \E n \in 1..MaxScopes :
          PopScopeEh(n) /\ op_ret' = [op |-> "pop_scope_eh"] /\ ExpandRest
    \/ \E v \in BoolVars, val \in {"true", "false"} :
          Assign(v, val) /\ op_ret' = [op |-> "assign"] /\ ExpandRest
    \/ \E l \in Vars, r \in RhsTerms, d \in DepChoices :
          /\ Len(m_updates) < MaxWork
          /\ AddSolution(l, r, d) /\ op_ret' = [op |-> "add_solution"] /\ ExpandRest
    \/ \E e \in ExpandTerms : ExpandCall(e)

SpecExpand == InitMap /\ [][ExpandNext]_vars

\* ---------------------------------------------------------------------------
\* solve_itos under push and pop: m_is_digit is undone with the trail
\* ---------------------------------------------------------------------------
\* the right-hand sides of this part
ItosScopeInputs ==
    {rs \in ItosInputs : Len(rs) <= 2} \cup {<< <<"unit", "0">>, VarX >>}

\* the scope at which each recorded unit was recorded
ItosMarks ==
    [u \in m_is_digit |->
        LET pos == CHOOSE p \in 1..Len(m_trail_stack) :
                       /\ m_trail_stack[p].k = "erase_is_digit"
                       /\ m_trail_stack[p].a = u
        IN  Cardinality({j \in 1..Len(m_trail_lim) : m_trail_lim[j] < pos})]

\* the units whose undo record lies above the mark
ItosUndone(mark) ==
    {m_trail_stack[p].a :
        p \in {q \in (mark + 1)..Len(m_trail_stack) :
                  m_trail_stack[q].k = "erase_is_digit"}}

\* push_scope_eh
ItosPush ==
    /\ PushScopeEh
    /\ op_ret' = [op |-> "push_scope_eh", digs |-> m_is_digit, marks |-> ItosMarks]
    /\ UNCHANGED <<m_length_limit_map, m_is_digit, th_assumptions>>

\* pop_scope_eh(n): the trail also takes the units recorded in the popped
\* scopes out of m_is_digit
ItosPop(n) ==
    /\ PopScopeEh(n)
    /\ m_is_digit' = m_is_digit \ ItosUndone(m_trail_lim[ScopeLevel - n + 1])
    /\ op_ret' = [op |-> "pop_scope_eh", digs |-> m_is_digit, marks |-> ItosMarks]
    /\ UNCHANGED <<m_length_limit_map, th_assumptions>>

ItosScopeNext ==
    \/ ItosPush
    \/ \E n \in 1..MaxScopes : ItosPop(n)
    \/ \E rs \in ItosScopeInputs, known \in ItosKnown : SolveItos(rs, known)

SpecItosScope == InitScope /\ [][ItosScopeNext]_vars

\* ---------------------------------------------------------------------------
\* get_length(e, len, lits): the symbolic length of a term.  Integer terms
\* are the numeral 0, the variables i and l, lengths, and differences; a
\* literal is [sign, atom] over the atoms t >= n.
\* ---------------------------------------------------------------------------
mk_int(k) == <<"num", k>>
IntI == <<"ivar", "i">>
IntL == <<"ivar", "l">>
mk_ge(t, n) == [k |-> "ge", t |-> t, n |-> n]
true_literal == [sign |-> TRUE, atom |-> [k |-> "true"]]
LitOf(atom) == [sign |-> TRUE, atom |-> atom]
LitNot(atom) == [sign |-> FALSE, atom |-> atom]
LitNeg(lit) == [lit EXCEPT !.sign = ~lit.sign]

\* the sequence terms get_length is asked about, over the sequence x
mk_extract(s, i, l) == <<"extract", s, i, l>>
mk_at(s, i) == <<"at", s, i>>
mk_pre(s, i) == <<"sk", "seq.pre", s, i>>
mk_post(s, i) == <<"sk", "seq.post", s, i>>
mk_tail_at(s, l) == <<"sk", "seq.tail", s, l>>
LengthTerms ==
    {UnitA, VarX, mk_post(VarX, IntI), mk_tail_at(VarX, IntL)}
    \cup {mk_extract(VarX, i, IntL) : i \in {mk_int(0), IntI}}
    \cup {mk_at(VarX, i) : i \in {mk_int(0), IntI}}
    \cup {mk_pre(VarX, i) : i \in {mk_int(0), IntI}}

\* ctx.get_assignment on the literals of one call, by their place in _lits
LengthVals == [1..4 -> LBool]

\* the literal i >= 0, true_literal for the numeral 0
mk_i_ge_0(i) == IF i = mk_int(0) THEN true_literal ELSE LitOf(mk_ge(i, 0))

LenFail == [ok |-> FALSE, len |-> NullTerm, lits |-> <<>>]
LenDone(len, lits) == [ok |-> TRUE, len |-> len, lits |-> lits]

\* the value of the literal at place k; true_literal is always true
LenValue(lits, val, k) ==
    IF lits[k] = true_literal THEN "l_true" ELSE val[k]
LenAllTrue(lits, val) == \A k \in 1..Len(lits) : LenValue(lits, val, k) = "l_true"

\* the tail case of get_length
get_length_tail(e, val) ==
    LET s == e[3]
        l == e[4]
        len_s_gt_l == LitOf(mk_ge(mk_sub(mk_length(s), l), 1))
    IN  CASE val[1] = "l_true" ->
               LenDone(mk_sub(mk_sub(mk_length(s), l), mk_int(1)), <<len_s_gt_l>>)
          [] val[1] = "l_false" ->
               LenDone(mk_int(0), <<LitNeg(len_s_gt_l)>>)
          [] OTHER -> LenFail

\* get_length(e, len, lits)
get_length(e, val) ==
    CASE e[1] = "extract" ->
           LET s == e[2]
               i == e[3]
               l == e[4]
               ls == mk_length(s)
               lits == <<mk_i_ge_0(i),
                         LitNot(mk_ge(mk_sub(i, ls), 0)),
                         LitOf(mk_ge(mk_sub(mk_sub(ls, i), l), 0)),
                         LitOf(mk_ge(l, 0))>>
           IN  IF LenAllTrue(lits, val) THEN LenDone(l, lits) ELSE LenFail
      [] e[1] = "at" ->
           LET lits == <<mk_i_ge_0(e[3]),
                         LitNot(mk_ge(mk_sub(e[3], mk_length(e[2])), 0))>>
           IN  IF LenAllTrue(lits, val) THEN LenDone(mk_int(1), lits) ELSE LenFail
      [] e[1] = "sk" /\ e[2] = "seq.pre" ->
           LET lits == <<mk_i_ge_0(e[4]),
                         LitNot(mk_ge(mk_sub(e[4], mk_length(e[3])), 0))>>
           IN  IF LenAllTrue(lits, val) THEN LenDone(e[4], lits) ELSE LenFail
      [] e[1] = "sk" /\ e[2] = "seq.post" ->
           LET lits == <<LitOf(mk_ge(e[4], 0)),
                         LitOf(mk_ge(mk_sub(mk_length(e[3]), e[4]), 0))>>
           IN  IF LenAllTrue(lits, val)
               THEN LenDone(mk_sub(mk_length(e[3]), e[4]), lits) ELSE LenFail
      [] e[1] = "sk" /\ e[2] = "seq.tail" -> get_length_tail(e, val)
      [] e[1] = "unit" -> LenDone(mk_int(1), <<>>)
      [] OTHER -> LenFail

\* get_length on one term under one assignment of its literals
GetLength(e, val) ==
    /\ LET r == get_length(e, val)
       IN  op_ret' = [op |-> "get_length", e |-> e, val |-> val, ok |-> r.ok,
                      len |-> r.len, lits |-> r.lits]
    /\ UNCHANGED <<fcVars, repVars, satVars, obsVars, scVars, reVars,
                   m_length_limit_map, m_is_digit, th_assumptions>>

SpecLength == InitScope /\ [][\E e \in LengthTerms, val \in LengthVals : GetLength(e, val)]_vars

\* ---------------------------------------------------------------------------
\* reduce_length_eq: splitting an equation at a point where both sides have
\* the same length.  The sides are sequences of units and variables, the
\* store holds [ls, rs] records, and dependencies are not tracked in this
\* part.  nl gives, for a variable, its length in the arithmetic model,
\* NoValue when there is none and NoLengthTerm when has_length fails.
\* ---------------------------------------------------------------------------
NoValue == -1
NoLengthTerm == -2
RlVars == {VarX, VarY, VarZ}
RlLengths ==
    {[v \in RlVars |-> 2], [v \in RlVars |-> 1], [v \in RlVars |-> NoValue],
     [v \in RlVars |-> IF v = VarX THEN 2 ELSE NoLengthTerm]}

\* the equations reduce_length_eq is called with, each in both directions
RlEquations ==
    {[ls |-> <<VarX, VarY>>, rs |-> <<UnitA, UnitB, VarZ>>],
     [ls |-> <<VarY, VarX>>, rs |-> <<VarZ, UnitA, UnitB>>],
     [ls |-> <<VarY, VarX>>, rs |-> <<VarZ, UnitA, UnitA, UnitB>>],
     [ls |-> <<UnitA, VarX>>, rs |-> <<UnitB, VarY>>],
     [ls |-> <<VarX, UnitA>>, rs |-> <<VarY, UnitB>>],
     [ls |-> <<VarX, VarY>>, rs |-> <<VarY, VarZ>>],
     [ls |-> <<VarX>>, rs |-> <<VarY>>],
     [ls |-> <<VarX, VarY>>, rs |-> <<>>]}
RlInputs == RlEquations \cup {[ls |-> eq.rs, rs |-> eq.ls] : eq \in RlEquations}

\* get_length(e, val) on one element: the numeric length, NoValue on failure
get_length_num(e, nl) ==
    IF e[1] = "unit" THEN 1
    ELSE IF e = Empty THEN 0
    ELSE IF nl[e] = NoLengthTerm THEN NoValue
    ELSE nl[e]

\* the axiom get_length adds for an element without a length term
get_length_axioms(e, nl) ==
    IF e[1] = "var" /\ nl[e] = NoLengthTerm
    THEN {LitOf(mk_ge(mk_length(e), 0))} ELSE {}

\* reduce_length(l, r, lits): both symbolic lengths exist and are the same
\* term; no literal of the elements used here is assigned
reduce_length_sym(l, r) ==
    LET val == [k \in 1..4 |-> "l_undef"]
        r1 == get_length(l, val)
        r2 == get_length(r, val)
    IN  r1.ok /\ r2.ok /\ r1.len = r2.len

SeqFrom(s, i) == SubSeq(s, i + 1, Len(s))
SeqUpTo(s, i) == SubSeq(s, 1, i)

RlNone(eqs, axs) ==
    [ret |-> FALSE, eqs |-> eqs, l |-> NullTerm, r |-> NullTerm,
     calls |-> <<>>, axioms |-> axs]

\* the segments reduce_length(i, j, front, ls, rs) equates and leaves
reduce_length_segments(i, j, front, ls, rs) ==
    IF front
    THEN [l |-> SeqUpTo(ls, i), r |-> SeqUpTo(rs, j),
          lhs |-> SeqFrom(ls, i), rhs |-> SeqFrom(rs, j)]
    ELSE [l |-> SeqFrom(ls, i), r |-> SeqFrom(rs, j),
          lhs |-> SeqUpTo(ls, i), rhs |-> SeqUpTo(rs, j)]

\* reduce_length without the loop over the store
reduce_length_push(i, j, front, ls, rs, len_eq, eqs) ==
    LET sg == reduce_length_segments(i, j, front, ls, rs)
    IN  IF len_eq
        THEN [ret |-> TRUE, eqs |-> Append(eqs, [ls |-> sg.lhs, rs |-> sg.rhs]),
              l |-> mk_concat_n(sg.l), r |-> mk_concat_n(sg.r)]
        ELSE [ret |-> FALSE, eqs |-> eqs, l |-> NullTerm, r |-> NullTerm]

\* reduce_length(i, j, front, ls, rs, deps); len_eq is whether the context
\* holds the literal len(l) = len(r)
reduce_length(i, j, front, ls, rs, len_eq, eqs) ==
    LET sg == reduce_length_segments(i, j, front, ls, rs)
        residual == [ls |-> sg.lhs, rs |-> sg.rhs]
    IN  IF len_eq /\ ~(\E k \in 1..Len(eqs) : eqs[k] = residual)
        THEN [ret |-> TRUE, eqs |-> Append(eqs, residual),
              l |-> mk_concat_n(sg.l), r |-> mk_concat_n(sg.r)]
        ELSE [ret |-> FALSE, eqs |-> eqs, l |-> NullTerm, r |-> NullTerm]

\* the loop over the elements of the shorter side from the front: j and len2
\* when it stops, and the axioms of the lengths it asked for
RECURSIVE RlScanFront(_, _, _, _, _)
RlScanFront(xs, len1, j, len2, nl) ==
    IF j < Len(xs) /\ len1 > len2
    THEN IF get_length_num(xs[j + 1], nl) = NoValue
         THEN [j |-> j, len2 |-> len2, axioms |-> get_length_axioms(xs[j + 1], nl)]
         ELSE RlScanFront(xs, len1, j + 1, len2 + get_length_num(xs[j + 1], nl), nl)
    ELSE [j |-> j, len2 |-> len2, axioms |-> {}]

\* the same loop from the back
RECURSIVE RlScanBack(_, _, _, _, _)
RlScanBack(xs, len1, j, len2, nl) ==
    IF j > 0 /\ len1 > len2
    THEN IF get_length_num(xs[j], nl) = NoValue
         THEN [j |-> j, len2 |-> len2, axioms |-> get_length_axioms(xs[j], nl)]
         ELSE RlScanBack(xs, len1, j - 1, len2 + get_length_num(xs[j], nl), nl)
    ELSE [j |-> j, len2 |-> len2, axioms |-> {}]

\* the index reduce_length is given for the scanned side in a suffix case
RlSuffixIndex(size, j) == size - j

\* one of the four numeric cases: big is the side whose end element is
\* compared, xs the side that is scanned.  The result says whether
\* reduce_length was called, with which indexes, and what it did.
RlNumeric(front, left, ls, rs, nl, len_eq, eqs) ==
    LET big == IF left THEN ls ELSE rs
        xs == IF left THEN rs ELSE ls
        b == IF front THEN big[1] ELSE big[Len(big)]
        x == IF front THEN xs[1] ELSE xs[Len(xs)]
        len1 == get_length_num(b, nl)
        len2 == get_length_num(x, nl)
    IN  IF Len(big) <= 1 THEN [called |-> FALSE, ret |-> FALSE, axioms |-> {}]
        ELSE IF len1 = NoValue
        THEN [called |-> FALSE, ret |-> FALSE, axioms |-> get_length_axioms(b, nl)]
        ELSE IF len2 = NoValue
        THEN [called |-> FALSE, ret |-> FALSE, axioms |-> get_length_axioms(x, nl)]
        ELSE IF ~(IF left THEN len1 >= len2 ELSE len1 > len2)
        THEN [called |-> FALSE, ret |-> FALSE, axioms |-> {}]
        ELSE LET sc == IF front THEN RlScanFront(xs, len1, 1, len2, nl)
                                ELSE RlScanBack(xs, len1, Len(xs) - 1, len2, nl)
                 jx == IF front THEN sc.j ELSE RlSuffixIndex(Len(xs), sc.j)
                 jb == IF front THEN 1 ELSE Len(big) - 1
                 i == IF left THEN jb ELSE jx
                 j == IF left THEN jx ELSE jb
                 summed == IF front THEN SeqUpTo(xs, sc.j) ELSE SeqFrom(xs, sc.j)
             IN  IF len1 = sc.len2 /\ 0 < sc.j /\ sc.j < Len(xs)
                 THEN LET r == reduce_length(i, j, front, ls, rs, len_eq, eqs)
                      IN  [called |-> TRUE, ret |-> r.ret, axioms |-> sc.axioms,
                           eqs |-> r.eqs, l |-> r.l, r |-> r.r,
                           call |-> [front |-> front, left |-> left, i |-> i, j |-> j,
                                     big |-> <<b>>, summed |-> summed,
                                     seg |-> reduce_length_segments(i, j, front, ls, rs),
                                     ret |-> r.ret]]
                 ELSE [called |-> FALSE, ret |-> FALSE, axioms |-> sc.axioms]

\* the four numeric cases in the order of the code, from case k on, until
\* one of them reports progress
RlCaseFront == <<TRUE, TRUE, FALSE, FALSE>>
RlCaseLeft == <<TRUE, FALSE, TRUE, FALSE>>
RECURSIVE RlNumericFrom(_, _, _, _, _, _)
RlNumericFrom(k, ls, rs, nl, len_eq, eqs) ==
    IF k > 4 THEN RlNone(eqs, {})
    ELSE LET c == RlNumeric(RlCaseFront[k], RlCaseLeft[k], ls, rs, nl, len_eq, eqs)
         IN  IF c.ret
             THEN [ret |-> TRUE, eqs |-> c.eqs, l |-> c.l, r |-> c.r,
                   calls |-> <<c.call>>, axioms |-> c.axioms]
             ELSE LET rest == RlNumericFrom(k + 1, ls, rs, nl, len_eq, eqs)
                  IN  [rest EXCEPT
                          !.calls = (IF c.called THEN <<c.call>> ELSE <<>>) \o @,
                          !.axioms = c.axioms \cup @]

\* m_eqs.push_back of the symbolic cases
RlPush(eqs, residual) == Append(eqs, residual)

\* reduce_length_eq(ls, rs, deps)
reduce_length_eq(ls, rs, nl, len_eq, eqs) ==
    IF ls = <<>> \/ rs = <<>> THEN RlNone(eqs, {})
    ELSE IF Len(ls) <= 1 /\ Len(rs) <= 1 THEN RlNone(eqs, {})
    ELSE IF reduce_length_sym(ls[1], rs[1])
    THEN [ret |-> TRUE, l |-> ls[1], r |-> rs[1], calls |-> <<>>, axioms |-> {},
          eqs |-> RlPush(eqs, [ls |-> SeqFrom(ls, 1), rs |-> SeqFrom(rs, 1)])]
    ELSE IF reduce_length_sym(ls[Len(ls)], rs[Len(rs)])
    THEN [ret |-> TRUE, l |-> ls[Len(ls)], r |-> rs[Len(rs)], calls |-> <<>>,
          axioms |-> {},
          eqs |-> RlPush(eqs, [ls |-> SeqUpTo(ls, Len(ls) - 1),
                               rs |-> SeqUpTo(rs, Len(rs) - 1)])]
    ELSE RlNumericFrom(1, ls, rs, nl, len_eq, eqs)

\* reduce_length_eq on one equation; the propagated equation l = r and the
\* axioms go to the context
ReduceLengthEq(in, nl, len_eq) ==
    /\ Len(m_eqs) < MaxStore
    /\ LET r == reduce_length_eq(in.ls, in.rs, nl, len_eq, m_eqs)
       IN  /\ m_eqs' = r.eqs
           /\ op_ret' = [op |-> "reduce_length_eq", ls |-> in.ls, rs |-> in.rs,
                         ret |-> r.ret, l |-> r.l, r |-> r.r, calls |-> r.calls,
                         axioms |-> r.axioms, before |-> m_eqs]
    /\ UNCHANGED <<fc_pc, fc_attempted, fc_fired, fc_status, m_new_propagation,
                   m_has_seq, m_split_w_len, m_ncs, m_automata, m_lts, m_lts_checked,
                   repVars, satVars, obsVars, scVars, reVars,
                   m_length_limit_map, m_is_digit, th_assumptions>>

RlNext ==
    \E in \in RlInputs, nl \in RlLengths, len_eq \in BOOLEAN :
        ReduceLengthEq(in, nl, len_eq)

SpecRedLen == InitScope /\ [][RlNext]_vars

\* ---------------------------------------------------------------------------
\* The axiom queue under enque_axiom, propagate, push_scope_eh and
\* pop_scope_eh, with add_length_to_eqc for the lengths deque_axiom looks at.
\* ---------------------------------------------------------------------------
AxRest == UNCHANGED <<m_length_limit_map, m_is_digit, th_assumptions>>

AxEnque(e) ==
    /\ Len(m_axioms) < MaxWork
    /\ EnqueAxiom(e)
    /\ op_ret' = [op |-> "enque_axiom", e |-> e]
    /\ AxRest

AxPropagate ==
    /\ Propagate
    /\ op_ret' = [op |-> "propagate", head0 |-> m_axioms_head, axioms0 |-> m_axioms]
    /\ AxRest

AxPush ==
    /\ PushScopeEh
    /\ op_ret' = [op |-> "push_scope_eh"]
    /\ AxRest

AxPop(n) ==
    /\ PopScopeEh(n)
    /\ op_ret' = [op |-> "pop_scope_eh", n |-> n, head0 |-> m_axioms_head,
                  at_push |-> scope_snap[ScopeLevel - n + 1].head,
                  axioms_at_push |-> scope_snap[ScopeLevel - n + 1].axioms]
    /\ AxRest

AxAddLength(e) ==
    /\ Len(m_axioms) < MaxWork
    /\ AddLengthToEqc(e)
    /\ op_ret' = [op |-> "add_length_to_eqc", e |-> e]
    /\ AxRest

AxNext ==
    \/ \E e \in AxiomTerms \cup {mk_length(VarY)} : AxEnque(e)
    \/ AxPropagate
    \/ AxPush
    \/ \E n \in 1..MaxScopes : AxPop(n)
    \/ \E e \in LenTerms : AxAddLength(e)

SpecAxioms == InitScope /\ [][AxNext]_vars

\* ---------------------------------------------------------------------------
\* Model construction on a solution map that add_solution has filled:
\* init_model, mk_value and finalize_model.
\* ---------------------------------------------------------------------------
ModelRest == UNCHANGED <<m_length_limit_map, m_is_digit, th_assumptions>>

ModelAddSolution(l, r, d) ==
    /\ Len(m_updates) < MaxWork
    /\ AddSolution(l, r, d)
    /\ op_ret' = [op |-> "add_solution"]
    /\ ModelRest

ModelInit(es) ==
    /\ InitModel(es)
    /\ op_ret' = [op |-> "init_model", es |-> es]
    /\ ModelRest

ModelMkValue(e, val) ==
    /\ MkValue(e, val)
    /\ op_ret' = [op |-> "mk_value", e |-> e, val |-> val]
    /\ ModelRest

ModelFinalize ==
    /\ FinalizeModel
    /\ op_ret' = [op |-> "finalize_model", before |-> rep_snap[Len(rep_snap)],
                  built |-> m_map]
    /\ ModelRest

ModelNext ==
    \/ \E l \in Vars, r \in RhsTerms, d \in DepChoices : ModelAddSolution(l, r, d)
    \/ \E es \in {{}} \cup {{e} : e \in CanonTerms} : ModelInit(es)
    \/ \E e \in Keys, val \in FactoryValues : ModelMkValue(e, val)
    \/ ModelFinalize

SpecModel == InitMap /\ [][ModelNext]_vars

\* ---------------------------------------------------------------------------
\* The exclusion table under update, push_scope_eh and pop_scope_eh.
\* ---------------------------------------------------------------------------
ExcludeTerms == {VarX, VarY, VarZ}
ExcludeRest == UNCHANGED <<m_length_limit_map, m_is_digit, th_assumptions>>

\* m_exclude.update(e, r)
ExcludeUpdateCall(e, r) ==
    /\ m_exclude' = ExcludeUpdate(m_exclude, e, r)
    /\ op_ret' = [op |-> "update", e |-> e, r |-> r,
                  held |-> ExcludeContains(m_exclude, e, r),
                  table0 |-> m_exclude.table, lhs0 |-> m_exclude.lhs]
    /\ UNCHANGED <<fcVars, repVars, satVars, obsVars, m_nqs, vec_scopes, trailVars,
                   scope_snap, reVars>>
    /\ ExcludeRest

ExcludePush ==
    /\ PushScopeEh
    /\ op_ret' = [op |-> "push_scope_eh"]
    /\ ExcludeRest

\* again: the call before the pop was an update of a pair the table held
ExcludePop(n) ==
    /\ PopScopeEh(n)
    /\ op_ret' = [op |-> "pop_scope_eh", n |-> n,
                  at_push |-> scope_snap[ScopeLevel - n + 1].exclude.table,
                  table0 |-> m_exclude.table,
                  again |-> IF op_ret.op = "update" /\ op_ret.held
                            THEN {<<op_ret.e, op_ret.r>>} ELSE {}]
    /\ ExcludeRest

ExcludeNext ==
    \/ \E e \in ExcludeTerms, r \in ExcludeTerms : ExcludeUpdateCall(e, r)
    \/ ExcludePush
    \/ \E n \in 1..MaxScopes : ExcludePop(n)

SpecExclude == InitScope /\ [][ExcludeNext]_vars

\* ---------------------------------------------------------------------------
\* Properties of the cascade
\* ---------------------------------------------------------------------------
Last(s) == s[Len(s)]

\* the rules a complete round calls under the current configuration
EnabledRules == {r \in Rules : RuleEnabled(r)}

\* C1: as soon as one rule reports progress the round returns CONTINUE and no
\* later rule is attempted; DONE or GIVEUP is returned only in a round in
\* which every rule was attempted and none reported progress.
C1_ContinueOnFirstProgress ==
    /\ fc_pc > 0 => fc_fired = {}
    /\ fc_fired # {} => /\ fc_status = "CONTINUE"
                        /\ fc_fired = {Last(fc_attempted)}
    /\ (fc_pc = 0 /\ fc_status = "CONTINUE") => fc_fired # {}
    /\ (fc_status \in {"DONE", "GIVEUP"} /\ m_has_seq) =>
            /\ fc_fired = {}
            /\ Range(fc_attempted) = EnabledRules \cup {"is_solved"}

C1_Witness ==
    /\ fc_pc = 0 /\ fc_status = "CONTINUE"
    /\ Len(fc_attempted) = 5
    /\ fc_fired = {"fixed_length_zero"}

\* the order of a round as the claim C2 states it
ClaimedOrder ==
    << "simplify_and_solve_eqs", "check_lts", "solve_nqs", "check_contains",
       "fixed_length_zero", "fixed_length", "len_based_split",
       "check_int_string", "reduce_length_eq", "branch_unit_variable",
       "branch_binary_variable", "branch_variable", "check_length_coherence",
       "check_extensionality", "branch_nqs", "is_solved" >>

\* the order with len_based_split between the two fixed_length calls
AmendedOrder ==
    << "simplify_and_solve_eqs", "check_lts", "solve_nqs", "check_contains",
       "fixed_length_zero", "len_based_split", "fixed_length",
       "check_int_string", "reduce_length_eq", "branch_unit_variable",
       "branch_binary_variable", "branch_variable", "check_length_coherence",
       "check_extensionality", "branch_nqs", "is_solved" >>

FollowsOrder(order) ==
    IsPrefix(fc_attempted,
             SeqFilter(order, {r \in Range(order) : RuleEnabled(r)}))

C3_DoneOnlyWhenSolved ==
    [][ (fc_pc # 0 /\ fc_pc' = 0 /\ m_has_seq) =>
            /\ fc_status' = "DONE" =>
                   /\ m_eqs = <<>>
                   /\ \A i \in 1..Len(m_automata) : m_automata[i]
                   /\ m_ncs = <<>>
            /\ (fc_fired' = {} /\
                ~(m_eqs = <<>> /\ m_ncs = <<>> /\
                  \A i \in 1..Len(m_automata) : m_automata[i]))
                  => fc_status' = "GIVEUP" ]_vars

C3_Witness ==
    /\ m_has_seq /\ fc_pc = 0 /\ fc_status = "GIVEUP"
    /\ m_eqs = <<>> /\ m_ncs # <<>>
    /\ m_automata # <<>> /\ \A i \in 1..Len(m_automata) : m_automata[i]

\* ---------------------------------------------------------------------------
\* Properties of the solution map and of canonize
\* ---------------------------------------------------------------------------

\* C4: whenever the theory assigns a literal, propagates an equality or
\* raises a conflict, every literal leaf of the linearized dependency is
\* assigned true in the SAT context (the assertion of linearize), after any
\* sequence of push, assignment, update, cache fill and pop.
C4_LinearizedLiteralsTrue == lin_ok

C4_Witness ==
    /\ lin_ok
    /\ lin_deps
    /\ ScopeLevel >= 1
    /\ \E c \in m_cache : c.d # {} /\ c.d \subseteq TrueLits

\* C5: pop_scope(k) leaves every slot of the solution map as it was at the
\* k-th most recent push, whatever updates (overwriting ones included) were
\* made in between.
C5_PopRestoresMap ==
    [][Len(m_limit') < Len(m_limit) => m_map' = rep_snap[Len(m_limit') + 1]]_vars

\* an open scope in which an entry of the map was overwritten
C5_Witness ==
    /\ Len(m_limit) >= 1
    /\ m_map # rep_snap[Len(rep_snap)]
    /\ \E i \in (m_limit[Len(m_limit)] + 1)..Len(m_updates) :
          /\ m_updates[i].op = "DEL"
          /\ m_updates[i].r # m_map[m_updates[i].l].e

\* the chain of e ends within fuel steps
RECURSIVE ChainEnds(_, _, _)
ChainEnds(map, e, fuel) ==
    IF ~HasEntry(map, e) THEN TRUE
    ELSE IF fuel = 0 THEN FALSE
    ELSE ChainEnds(map, map[e].e, fuel - 1)

\* C6: no entry maps a term to itself and no chain of entries returns to a
\* term already visited, after the updates of add_solution,
\* add_elim_string_axiom and model construction and after pops.
C6_MapAcyclic ==
    \A k \in Keys :
        /\ m_map[k].e # k
        /\ ChainEnds(m_map, k, Cardinality(Keys))

\* a chain of two entries outside of model construction
C6_Witness ==
    /\ ~in_model
    /\ \E k \in Keys : HasEntry(m_map, k) /\ HasEntry(m_map, m_map[k].e)

\* C8: each cached entry (v, e, d) is the result and the dependency that the
\* expansion of v computes from the current map and the current truth values
\* with an empty cache.
C8_CacheCoherent ==
    \A c \in m_cache :
        LET r == Exp(m_map, c.v, {}, ExpandFuel)
        IN  r.ok /\ r.e = c.e /\ r.d = c.d

C8_Witness ==
    /\ ScopeLevel >= 1
    /\ \E c \in m_cache : c.v # c.e /\ c.d # {} /\ is_concat(c.v)

\* the terms whose canonical form is compared
IdemTerms == RhsTerms \cup CanonTerms \cup {mk_concat(Empty, VarX), UnitA}

\* C9: whenever canonize(e) succeeds with result e', canonize(e') succeeds
\* and returns e'.
C9_CanonizeIdempotent ==
    \A e \in IdemTerms :
        LET c1 == Canonize(m_map, e, m_cache)
        IN  c1.ok =>
              LET c2 == Canonize(m_map, c1.e, c1.cache)
              IN  c2.ok /\ c2.e = c1.e

\* x canonizes through a chain of two entries and an ite to a different term
C9_Witness ==
    /\ HasEntry(m_map, VarX) /\ HasEntry(m_map, m_map[VarX].e)
    /\ Canonize(m_map, mk_concat(VarX, VarY), m_cache).ok
    /\ Canonize(m_map, mk_concat(VarX, VarY), m_cache).e # mk_concat(VarX, VarY)
    /\ Canonize(m_map, mk_ite("c1", VarY, StrAB), m_cache).ok

\* ---------------------------------------------------------------------------
\* Properties of the scoped containers
\* ---------------------------------------------------------------------------

\* C7: pop_scope_eh brings the solution map, the exclusion table, the
\* equation, disequation and not-contains stores, the lt/le list, the axiom
\* queue and its head cursor, the has_length set and the length list, the
\* fixed-variable set, the membership list and the check_lts flag back to
\* their values at the matching push_scope_eh.
C7_PopRestoresContainers ==
    [][Len(scope_snap') < Len(scope_snap)
        => ScopeState' = scope_snap[Len(scope_snap') + 1]]_vars

\* an open scope in which the exclusion table grew, a not-contains entry was
\* erased and check_lts set its flag
C7_Witness ==
    /\ ScopeLevel >= 1
    /\ LET snap == scope_snap[Len(scope_snap)]
       IN  /\ m_exclude.table # snap.exclude.table
           /\ Len(m_ncs) < Len(snap.vecs.ncs)
           /\ m_lts_checked # snap.lts_checked

\* ---------------------------------------------------------------------------
\* Properties of the accept / step unfolding
\* ---------------------------------------------------------------------------

\* C10: once assign_eh has run on every true accept and step literal and
\* every clause of propagate_accept is satisfied, either a conflict has been
\* derived or, for every true accept(s, i, R, q), the automaton has a path
\* from q to a final state that consumes exactly the elements of s from
\* position i to the end.
C10_AcceptHasPath ==
    (re_conflict = "none" /\ ReSaturated) =>
        \A lit \in re_true : lit.k = "accept" => HasPath(lit.q, lit.i)

\* the membership of a sequence of three elements unfolded from the initial
\* state to the end without conflict, under a raised unfolding depth
C10_Witness ==
    /\ re_conflict = "none" /\ ReSaturated
    /\ unf_active /\ Len(re_s) = MaxLen
    /\ mk_accept(0, Aut.init) \in re_true
    /\ mk_accept(Len(re_s), 2) \in re_true

\* ---------------------------------------------------------------------------
\* Properties of the equation solver
\* ---------------------------------------------------------------------------
\* solve_eq would reduce the equation: simplify_eq changes its canonical form
\* or solve_unit_eq applies to it
EqReducible(eq) ==
    LET cl == Canonize(m_map, eq[1], {})
        cr == Canonize(m_map, eq[2], {})
    IN  /\ cl.ok /\ cr.ok
        /\ \/ reduce_eq(cl.e, cr.e).changed
           \/ solve_unit_eq([rep |-> Rep, eqs |-> m_eqs, ns |-> FALSE, cf |-> FALSE],
                            cl.e, cr.e).done

\* C11: when simplify_and_solve_eqs has returned and the context is
\* consistent, no equation left in the equation store can be reduced by
\* solve_unit_eq or by simplify_eq.
C11_NoReducibleEquation ==
    (fc_attempted = <<"simplify_and_solve_eqs">> /\ re_conflict = "none")
        => \A i \in 1..Len(m_eqs) : ~EqReducible(m_eqs[i])

\* simplify_and_solve_eqs returned consistent, having added a solution and
\* left an equation in the store
C11_Witness ==
    /\ fc_attempted = <<"simplify_and_solve_eqs">>
    /\ re_conflict = "none"
    /\ m_eqs # <<>>
    /\ m_updates # <<>>

\* the canonical form of a term under the current solution map
CanonOf(e) == Canonize(m_map, e, {}).e

\* the pairs new_diseq_eh has put into the exclusion table
DiseqPairs == {p \in m_exclude.table : p \in Range(m_nqs) \/ <<p[2], p[1]>> \in Range(m_nqs)}

\* C12 as stated: every pair of the exclusion table has different canonical
\* forms under the current solution map, in every reachable state.
C12_CanonicalFormsDiffer ==
    \A p \in m_exclude.table : CanonOf(p[1]) # CanonOf(p[2])

\* C12 as the code has it: every pair of the exclusion table consists of two
\* different terms, and a pair that check_extensionality put there has
\* different canonical forms; a pair from new_diseq_eh is stored without
\* canonizing and a later solution can make its canonical forms equal.
C12_ExtensionalityPairsDiffer ==
    \A p \in m_exclude.table :
        /\ p[1] # p[2]
        /\ p \notin DiseqPairs => CanonOf(p[1]) # CanonOf(p[2])

\* check_extensionality has excluded a pair under a non-empty solution map
C12_Witness ==
    /\ m_exclude.table \ DiseqPairs # {}
    /\ m_updates # <<>>

\* ---------------------------------------------------------------------------
\* Properties of the search control
\* ---------------------------------------------------------------------------
\* itos: the decimal numeral of n, the empty sequence for a negative n
RECURSIVE ItosOf(_)
ItosOf(n) ==
    IF n < 0 THEN <<>>
    ELSE IF n < 10 THEN << <<"unit", DigitChars[n + 1]>> >>
    ELSE ItosOf(n \div 10) \o << <<"unit", DigitChars[(n % 10) + 1]>> >>

\* the literal holds when n has the value v
ItosLitHolds(l, v) ==
    CASE l.k = "le" -> v <= l.c
      [] l.k = "is_digit" -> is_digit(l.u)
      [] l.k = "eq" -> (\A i \in 1..Len(l.ds) : is_digit(l.ds[i])) /\ v = Horner(l.ds)
      [] l.k = "ge" -> is_digit(l.u) /\ digit2int(l.u) >= l.c

\* every literal solve_itos has just propagated, and the is_digit literal
\* propagated before for a unit of rs, holds when n has the value v
ItosConsistent(v) ==
    /\ \A l \in op_ret.lits : ItosLitHolds(l, v)
    /\ \A u \in m_is_digit \cap Range(op_ret.arg) : is_digit(u)

Str042 == << <<"unit", "0">>, <<"unit", "4">>, <<"unit", "2">> >>

\* C13 as stated: the literals solve_itos propagates for itos(n) = "042" are
\* jointly consistent with n = 42.
C13_Itos042Has42 ==
    (op_ret.op = "solve_itos" /\ op_ret.arg = Str042) => ItosConsistent(42)

\* C13 as the code has it: the literals solve_itos propagates for
\* itos(n) = rs hold of exactly the n whose decimal numeral is rs (of the
\* negative n for the empty rs); a numeral has no leading zero, so for "042"
\* they hold of no n, neither with n >= 0 nor with n < 0.
C13_ItosLiteralsMeanItos ==
    (op_ret.op = "solve_itos" /\ op_ret.ret)
        => \A v \in (-1)..MaxItos : ItosConsistent(v) <=> ItosOf(v) = op_ret.arg

\* solve_itos has run on itos(n) = "042"
C13_Witness ==
    op_ret.op = "solve_itos" /\ op_ret.ret /\ op_ret.arg = Str042

\* should_research has just run on a core with the max_unfolding literal
ResearchedUnfolding ==
    op_ret.op = "should_research" /\ \E l \in op_ret.core : l.k = "max_unfolding"

\* should_research has just run on a core with a length_limit literal
ResearchedLimit ==
    op_ret.op = "should_research" /\ CoreLimits(op_ret.core) # {}

\* C14 as stated: on a core with the max_unfolding literal should_research
\* returns true and replaces the depth d by (1 + 3d) / 2.
C14_DepthGrowsByHalf ==
    ResearchedUnfolding
        => op_ret.ret /\ m_max_unfolding_depth = (1 + 3 * op_ret.d0) \div 2

\* C14 as the code has it: on a core with the max_unfolding literal
\* should_research returns true; the depth d becomes (1 + 3d) / 2 when the
\* core has no length_limit literal and d + 1 when it has one.
C14_DepthGrowsByHalfOrOne ==
    ResearchedUnfolding
        => /\ op_ret.ret
           /\ m_max_unfolding_depth =
                IF CoreLimits(op_ret.core) = {} THEN (1 + 3 * op_ret.d0) \div 2
                ELSE op_ret.d0 + 1

\* should_research has run at a depth where the two growths differ, on a
\* core with the max_unfolding literal and a length_limit literal
C14_Witness ==
    /\ ResearchedUnfolding /\ ResearchedLimit
    /\ (1 + 3 * op_ret.d0) \div 2 # op_ret.d0 + 1

\* C15 as stated: for every length_limit(s, k) literal of the core
\* should_research returns true and raises the recorded limit of s to 2k.
C15_EveryLimitDoubled ==
    ResearchedLimit
        => /\ op_ret.ret
           /\ \A l \in CoreLimits(op_ret.core) : m_length_limit_map[l.s] = 2 * l.n

\* C15 as the code has it: on a core with length_limit literals
\* should_research returns true and changes the recorded limit of one
\* sequence only, one whose literal has the smallest k of the core: its limit
\* becomes 2k unless the recorded limit is 2k or more already.
C15_SmallestLimitDoubled ==
    ResearchedLimit
        => /\ op_ret.ret
           /\ op_ret.s_min \in SMinChoices(op_ret.core)
           /\ \A s \in Vars :
                m_length_limit_map[s] =
                    IF s = op_ret.s_min /\ op_ret.map0[s] < 2 * KMin(op_ret.core)
                    THEN 2 * KMin(op_ret.core)
                    ELSE op_ret.map0[s]

\* should_research has run on a core with the length_limit literals of two
\* sequences
C15_Witness ==
    ResearchedLimit /\ Cardinality({l.s : l \in CoreLimits(op_ret.core)}) = 2

\* C17 as stated: init_search_eh throws whenever the arithmetic engine is
\* neither the old nor the new one, and never with one of the two.
C17_ThrowsOnOtherEngine ==
    op_ret.op = "init_search_eh"
        => (op_ret.thrown = "IncompatibleArithTheory"
                <=> op_ret.as \notin {"AS_OLD_ARITH", "AS_NEW_ARITH"})

\* C17 as the code has it: init_search_eh throws exactly when the theory has
\* seen a sequence term and the arithmetic engine is neither the old nor the
\* new one.
C17_ThrowsOnOtherEngineWithSeq ==
    op_ret.op = "init_search_eh"
        => (op_ret.thrown = "IncompatibleArithTheory"
                <=> (m_has_seq /\ op_ret.as \notin {"AS_OLD_ARITH", "AS_NEW_ARITH"}))

\* init_search_eh has returned under another engine, no sequence term seen
C17_Witness ==
    /\ op_ret.op = "init_search_eh" /\ ~m_has_seq
    /\ op_ret.as = "AS_DIFF_LOGIC" /\ op_ret.thrown = "none"

\* propagate_in_re has just run on an atom that rewrites neither to true nor
\* to false
InReTracked == op_ret.op = "propagate_in_re" /\ op_ret.tracked

\* the entry propagate_in_re has just added
InReNew == m_s_in_re[Len(m_s_in_re)]

\* C16: propagate_in_re throws UnsupportedRegex exactly when the expression
\* to be tracked, complemented for a false membership and intersected with
\* the earlier memberships, has no automaton; then no membership entry is
\* added and no accept axiom is emitted.
C16_ThrowsWhenNotCompiled ==
    InReTracked
        => /\ op_ret.thrown = "UnsupportedRegex" <=> ~Compiles(op_ret.re)
           /\ op_ret.thrown = "UnsupportedRegex"
                => /\ Len(m_s_in_re) = Len(op_ret.before)
                   /\ op_ret.clause = {}
           /\ op_ret.thrown = "none" => Len(m_s_in_re) = Len(op_ret.before) + 1

\* propagate_in_re has thrown on an intersection with an earlier membership
C16_Witness ==
    /\ InReTracked /\ op_ret.thrown = "UnsupportedRegex"
    /\ op_ret.re[1] = "inter"

\* the earlier entries of the class of the new entry that were active
InRePrior ==
    {i \in 1..Len(op_ret.before) :
        /\ op_ret.before[i].active
        /\ get_root(op_ret.before[i].s) = get_root(op_ret.lit.s)}

\* the expressions the loop of propagate_in_re went through, from the final
\* one back to the one it started with
RECURSIVE RightSpine(_)
RightSpine(r) == {r} \cup (IF r[1] = "inter" THEN RightSpine(r[3]) ELSE {})

\* C19 as stated: once propagate_in_re has recorded a membership, every
\* earlier active entry of the class is deactivated, its expression is
\* intersected into the new one and its literal is negated in the clause, so
\* that the new entry is the only active one of the class.
C19_OnlyActiveEntry ==
    (InReTracked /\ op_ret.thrown = "none")
        => \A i \in InRePrior :
              /\ ~m_s_in_re[i].active
              /\ \E r \in RightSpine(InReNew.re) :
                    r[1] = "inter" /\ r[2] = m_s_in_re[i].re
              /\ Neg(m_s_in_re[i].lit) \in op_ret.clause

\* C19 as the code has it: an earlier active entry of the class is
\* deactivated, intersected and negated in the clause when its expression
\* differs from the one the loop has reached; an entry with that very
\* expression stays active beside the new entry.
C19_ActiveOnlyWithSameRegex ==
    (InReTracked /\ op_ret.thrown = "none")
        => \A i \in InRePrior :
              IF m_s_in_re[i].active
              THEN m_s_in_re[i].re \in RightSpine(InReNew.re)
              ELSE /\ \E r \in RightSpine(InReNew.re) :
                         r[1] = "inter" /\ r[2] = m_s_in_re[i].re
                   /\ Neg(m_s_in_re[i].lit) \in op_ret.clause

\* propagate_in_re has deactivated an entry recorded for another term of the
\* class
C19_Witness ==
    /\ InReTracked /\ op_ret.thrown = "none"
    /\ \E i \in InRePrior : ~m_s_in_re[i].active /\ m_s_in_re[i].s # InReNew.s

\* the automaton of r has a path of epsilon moves from p to q
EpsReach(r, p, q) ==
    \E n \in 0..2 : \E path \in [0..n -> 0..2] :
        /\ path[0] = p /\ path[n] = q
        /\ \A j \in 1..n : <<path[j - 1], path[j]>> \in EpsMoves(r)

\* the expression the loop of propagate_in_re started with
RECURSIVE InReStart(_)
InReStart(r) == IF r[1] = "inter" THEN InReStart(r[3]) ELSE r

\* the expression of the atom, complemented for a false membership
InReOwn == IF op_ret.lit.sign THEN op_ret.lit.r ELSE mk_complement(op_ret.lit.r)

\* C20 as stated: for an atom that rewrites neither to true nor to false the
\* clause propagate_in_re emits is (literal assigned) => \/ accept(s, 0, R, q)
\* with one disjunct for each state q of the epsilon closure of the initial
\* state of the automaton of R, where R is the expression of the atom, or
\* its complement for a false membership.
C20_InitialStateAxiom ==
    (InReTracked /\ op_ret.thrown = "none")
        => op_ret.clause =
              {Neg(op_ret.lit)}
              \cup {AcceptLit(op_ret.lit.s, 0, InReOwn, q) :
                      q \in {p \in 0..2 : EpsReach(InReOwn, 0, p)}}

\* C20 as the code has it: the clause holds the negation of the literal
\* assigned and one accept(s, 0, R, q) for each state q of the epsilon
\* closure of the initial state of the automaton of R, where R is the
\* expression of the atom (complemented for a false membership) intersected
\* with the expressions of the entries deactivated; every other literal is
\* the negated literal of an earlier entry of the class or a negated
\* equality between its term and s.
C20_InitialStateAxiomWithPrior ==
    (InReTracked /\ op_ret.thrown = "none")
        => /\ Neg(op_ret.lit) \in op_ret.clause
           /\ InReStart(InReNew.re) = InReOwn
           /\ \A q \in 0..2 :
                AcceptLit(op_ret.lit.s, 0, InReNew.re, q) \in op_ret.clause
                    <=> EpsReach(InReNew.re, 0, q)
           /\ \A l \in op_ret.clause :
                \/ l = Neg(op_ret.lit)
                \/ /\ l.k = "accept"
                   /\ l.s = op_ret.lit.s /\ l.i = 0 /\ l.re = InReNew.re
                \/ \E i \in InRePrior :
                      \/ l = Neg(op_ret.before[i].lit)
                      \/ l = EqLit(op_ret.before[i].s, op_ret.lit.s, FALSE)

\* propagate_in_re has emitted the clause of a false membership whose
\* automaton has epsilon moves
C20_Witness ==
    /\ InReTracked /\ op_ret.thrown = "none" /\ ~op_ret.lit.sign
    /\ Cardinality({l \in op_ret.clause : l.k = "accept"}) = 3

\* the terms find is asked for: the keys of the map, the terms their entries
\* hold, and a term that owns no slot
FindTerms == Keys \cup {m_map[k].e : k \in {k \in Keys : HasEntry(m_map, k)}} \cup {UnitA}

\* path is the chain of e in the solution map: it starts at e, each term but
\* the last has an entry that holds the next, and the last has none
IsChainOf(path, n, e) ==
    /\ path[0] = e
    /\ \A j \in 1..n : HasEntry(m_map, path[j - 1]) /\ path[j] = m_map[path[j - 1]].e
    /\ ~HasEntry(m_map, path[n])

\* C18: find(e, d) returns the end r of the chain of e in the solution map,
\* is_root(r) holds, and d is the union of the dependencies of the entries
\* traversed; for a term without entry it returns the term with the empty
\* dependency.
C18_FindReturnsChainEnd ==
    \A e \in FindTerms :
        LET f == Find(m_map, e, ExpandFuel)
        IN  /\ is_root(m_map, f.e)
            /\ \E n \in 0..Cardinality(Keys) : \E path \in [0..n -> FindTerms] :
                  /\ IsChainOf(path, n, e)
                  /\ f.e = path[n]
                  /\ f.d = UNION {m_map[path[j - 1]].d : j \in 1..n}
            /\ ~HasEntry(m_map, e) => f = [e |-> e, d |-> {}]

\* x has a chain of two entries of which only the second has a dependency
C18_Witness ==
    /\ HasEntry(m_map, VarX) /\ HasEntry(m_map, m_map[VarX].e)
    /\ m_map[VarX].d = {} /\ m_map[m_map[VarX].e].d # {}
    /\ Find(m_map, VarX, ExpandFuel).d # {}

\* propagate_accept has just run
AcceptRan == op_ret.op = "propagate_accept"

\* the step literals of the moves that leave the state of the accept literal
StepsOf(lit) ==
    {Pos([k |-> "step", i |-> lit.i, q |-> lit.q, j |-> mv[3], c |-> mv[2]]) :
        mv \in {m \in Aut.moves : m[1] = lit.q}}

\* C21: on a true accept(s, i, R, q) with q a sink state propagate_accept
\* raises a conflict justified by the accept literal and emits no step
\* clause and no length propagation.
C21_SinkIsConflict ==
    (AcceptRan /\ op_ret.lit.q \in Aut.sinks)
        => /\ op_ret.conflict
           /\ op_ret.js = {op_ret.lit}
           /\ op_ret.clause = {}
           /\ op_ret.props = {}

\* propagate_accept has met a sink state beyond the unfolding depth, at a
\* scope level above the base, with the assumption literal set
C21_Witness ==
    /\ AcceptRan /\ op_ret.lit.q \in Aut.sinks /\ op_ret.conflict
    /\ op_ret.lit.i > op_ret.depth /\ op_ret.lvl > 0 /\ op_ret.unf_lit # NullLit

\* C22: for a state q that is no sink, propagate_accept on a true
\* accept(s, i, R, q) propagates accept => len(s) >= i and adds the clause
\* ~accept \/ len(s) <= i \/ steps when q is final, and propagates
\* accept => len(s) > i and adds the clause ~accept \/ steps when q is not
\* final; the steps are one step(s, i, R, q, q', t) for each move that
\* leaves q.
C22_AcceptClauses ==
    (AcceptRan /\ op_ret.lit.q \notin Aut.sinks)
        => LET lit == op_ret.lit
               lens == {p \in op_ret.props : p[2][2].k \in {"len_le", "len_ge"}}
           IN  /\ ~op_ret.conflict
               /\ \A p \in op_ret.props : p[1] = lit
               /\ IF lit.q \in Aut.final
                  THEN /\ lens = {<<lit, Pos(LenGe(lit.i))>>}
                       /\ op_ret.clause =
                            {NegOf(lit), Pos(LenLe(lit.i))} \cup StepsOf(lit)
                  ELSE /\ lens = {<<lit, NegOf(LenLe(lit.i))>>}
                       /\ op_ret.clause = {NegOf(lit)} \cup StepsOf(lit)

\* propagate_accept has run on the final state, which has two moves
C22_Witness ==
    /\ AcceptRan /\ op_ret.lit.q \in Aut.final
    /\ Cardinality(op_ret.clause) = 4

\* the propagation of the negated max_unfolding literal
UnfoldingProp == <<op_ret.lit, NegOf(op_ret.unf_lit)>>

StepRan == op_ret.op = "propagate_step"

\* the propagation of len(s) > i by a step literal
StepLengthProp == <<op_ret.lit, NegOf(LenLe(op_ret.lit.i))>>

LtsRan == op_ret.op = "check_lts" /\ op_ret.ret

\* C25: when check_lts runs, for every pair of distinct recorded literals
\* that read a <| b and c <| d with b and c in one class it instantiates
\* (a <| b /\ c <| d /\ b = c) => a <| d, strict iff one of the premises is
\* strict.
C25_AxiomForEveryPair ==
    LtsRan
        => \A i \in 1..Len(op_ret.lts), j \in 1..Len(op_ret.lts) :
              LET e1 == op_ret.lts[i]
                  e2 == op_ret.lts[j]
                  r1 == LtRead(e1)
                  r2 == LtRead(e2)
              IN  (i # j /\ get_root(r1.b) = get_root(r2.a))
                    => \E ax \in op_ret.axioms :
                          /\ ax.r1 = r1.r /\ ax.r2 = r2.r
                          /\ ax.concl.a = r1.a /\ ax.concl.b = r2.b
                          /\ ax.concl.k = (IF r1.strict \/ r2.strict THEN "lt" ELSE "le")

\* what check_lts does: the axiom is instantiated for the pairs in which the
\* literal read as a <| b was recorded before the one read as c <| d, and
\* for no other pair.
LtsAxiomsOfOrderedPairs ==
    LtsRan
        => op_ret.axioms =
              {LtAxiom(op_ret.lts[ij[1]], op_ret.lts[ij[2]]) :
                  ij \in {p \in (1..Len(op_ret.lts)) \X (1..Len(op_ret.lts)) :
                            /\ p[1] < p[2]
                            /\ get_root(LtRead(op_ret.lts[p[1]]).b)
                                 = get_root(LtRead(op_ret.lts[p[2]]).a)}}

\* check_lts has run on y < z recorded before x < y and added no axiom
C25_Witness ==
    /\ LtsRan
    /\ op_ret.lts = << [p |-> [k |-> "lt", a |-> VarY, b |-> VarZ], val |-> TRUE],
                       [p |-> [k |-> "lt", a |-> VarX, b |-> VarY], val |-> TRUE] >>
    /\ op_ret.axioms = {}

\* the undo records of the flag on the trail stack
LtsFlagRecords ==
    {i \in 1..Len(m_trail_stack) : m_trail_stack[i].k = "value_lts_checked"}

\* C26: check_lts runs, reporting progress, only with a literal recorded and
\* the flag not set, and sets the flag; a call with the flag set or without a
\* literal reports no progress and adds nothing; the flag stays set exactly
\* while the scope check_lts ran in is open, so that it runs at most once in
\* that time.
C26_OncePerScope ==
    /\ op_ret.op = "check_lts"
         => /\ op_ret.ret <=> (op_ret.lts # <<>> /\ ~op_ret.checked)
            /\ op_ret.ret => m_lts_checked
            /\ ~op_ret.ret => op_ret.axioms = {} /\ m_lts_checked = op_ret.checked
    /\ m_lts_checked <=> LtsFlagRecords # {}
    /\ Cardinality(LtsFlagRecords) <= 1
    /\ \A i \in LtsFlagRecords : ~m_trail_stack[i].old

\* check_lts has been skipped in a scope opened after the one it ran in,
\* with a literal recorded since
C26_Witness ==
    /\ op_ret.op = "check_lts" /\ ~op_ret.ret /\ op_ret.checked
    /\ ScopeLevel = 2 /\ Len(m_lts) = 2
    /\ \E i \in LtsFlagRecords : i <= m_trail_lim[2] /\ i > m_trail_lim[1]
    /\ Len(vec_scopes[2].lts) = 1

\* the value of the guard literal when the two sequences have the lengths
\* la and lb
LenGtHolds(lit, la, lb) ==
    LET len(t) == IF t = lit.t[2] THEN la ELSE lb
    IN  len(lit.t[2]) - len(lit.t[3]) <= lit.n

\* the lengths the guard is evaluated at
NcLens == 0..MaxLen

\* C27 as stated: the guard literal stored with the constraint for
\* ~contains(a, b) asserts |a| > |b|.
C27_GuardIsLonger ==
    \A i \in 1..Len(m_ncs) :
        LET n == m_ncs[i]
        IN  /\ n.len_gt.t = mk_sub(mk_length(Rewrite(n.contains.a)),
                                   mk_length(Rewrite(n.contains.b)))
            /\ \A la \in NcLens, lb \in NcLens :
                  LenGtHolds(n.len_gt, la, lb) <=> la > lb

\* C27 as the code has it: the guard literal stored with the constraint for
\* ~contains(a, b) is |a| - |b| <= -1 over the rewritten arguments: it
\* asserts |a| < |b|, the sequence searched is shorter than the one looked
\* for.
C27_GuardIsShorter ==
    \A i \in 1..Len(m_ncs) :
        LET n == m_ncs[i]
        IN  /\ n.len_gt.t = mk_sub(mk_length(Rewrite(n.contains.a)),
                                   mk_length(Rewrite(n.contains.b)))
            /\ \A la \in NcLens, lb \in NcLens :
                  LenGtHolds(n.len_gt, la, lb) <=> la < lb

\* a constraint is stored for ~contains(x . empty, "ab")
C27_Witness ==
    /\ op_ret.op = "assign_eh" /\ op_ret.stored
    /\ \E i \in 1..Len(m_ncs) :
          m_ncs[i].contains = mk_contains(mk_concat(VarX, Empty), StrAB)

\* check_contains has just run
NcRan == op_ret.op = "check_contains"

\* the entries check_contains visited before the context became
\* inconsistent, the last one included
NcVisited == Range(op_ret.visited)

\* C28: check_contains visits each constraint present at entry once, all of
\* them unless the context becomes inconsistent.  A visited constraint whose
\* guard is true gets length terms for both arguments and is removed without
\* unrolling; one whose guard is undecided has the guard marked relevant,
\* flags progress and stays; one whose guard is false is unrolled and
\* removed.
C28_CheckContainsCases ==
    NcRan
        => /\ Len(op_ret.visited) = Cardinality(NcVisited)
           /\ NcVisited \subseteq Range(op_ret.ncs)
           /\ ~op_ret.inc => NcVisited = Range(op_ret.ncs)
           /\ \A n \in Range(op_ret.ncs) \ NcVisited : n \in Range(m_ncs)
           /\ \A n \in NcVisited :
                CASE op_ret.vals[n] = "l_true" ->
                        /\ {n.contains.a, n.contains.b} \subseteq m_has_length
                        /\ n \notin Range(m_ncs)
                        /\ n.contains \notin op_ret.unrolled
                  [] op_ret.vals[n] = "l_undef" ->
                        /\ n.len_gt \in op_ret.relevant
                        /\ m_new_propagation /\ op_ret.ret
                        /\ n \in Range(m_ncs)
                        /\ n.contains \notin op_ret.unrolled
                  [] op_ret.vals[n] = "l_false" ->
                        /\ n.contains \in op_ret.unrolled
                        /\ n \notin Range(m_ncs)

\* check_contains has removed the first of two constraints, whose guard is
\* true, and kept the second, whose guard is undecided
C28_Witness ==
    /\ NcRan /\ Len(op_ret.ncs) = 2 /\ ~op_ret.inc
    /\ op_ret.vals[op_ret.ncs[1]] = "l_true"
    /\ op_ret.vals[op_ret.ncs[2]] = "l_undef"
    /\ m_ncs = <<op_ret.ncs[2]>>

\* fixed_length has just run
FixedRan == op_ret.op = "fixed_length"

\* the sequence of n units fixed_length equates a variable with
RECURSIVE UnitsOf(_, _, _)
UnitsOf(x, j, n) ==
    IF n = 0 THEN Empty
    ELSE IF j = n - 1 THEN mk_unit(mk_nth(x, j))
    ELSE mk_concat(mk_unit(mk_nth(x, j)), UnitsOf(x, j + 1, n))

\* the tracked sequences C29 is about: a variable, no tail, seq_first,
\* indexof_left or indexof_right skolem, whose length bounds coincide
FixedCases ==
    {x \in {op_ret.length[i][2] : i \in 1..Len(op_ret.length)} :
        /\ is_var_term(x) /\ \A k \in FixedExcluded : ~is_skolem(k, x)
        /\ op_ret.bnds[x][1] = op_ret.bnds[x][2] /\ op_ret.bnds[x][1] >= 0}

\* the axioms of the last fixed_length about x
FixedAxiomsOf(x) == {ax \in op_ret.axioms : ax.b.r = x}

\* C29: for a tracked |x| whose bounds coincide at n, x a variable and none
\* of the four skolems, fixed_length asserts |x| = n -> x = unit .. unit (n
\* units, x = empty for n = 0), marks x and reports progress, the zero pass
\* only when n = 0; for a marked x it asserts nothing and reports no
\* progress for x; x stays marked until the scope in which it was marked is
\* popped.
C29_FixedLengthOnce ==
    /\ FixedRan =>
          /\ \A x \in FixedCases :
                LET n == op_ret.bnds[x][1]
                IN  IF x \notin op_ret.seen.fixed /\ (op_ret.is_zero => n = 0)
                    THEN /\ FixedAxiomsOf(x) =
                               {FixedAxiom(mk_length(x), n, UnitsOf(x, 0, n))}
                         /\ x \in m_fixed
                         /\ op_ret.ret
                    ELSE /\ FixedAxiomsOf(x) = {}
                         /\ x \in m_fixed <=> x \in op_ret.seen.fixed
          /\ op_ret.ret <=> op_ret.axioms # {}
          /\ \A ax \in op_ret.axioms : ax.b.r \in FixedCases
    /\ op_ret.op \in {"fixed_length", "pop_scope_eh", "push_scope_eh",
                      "add_length_to_eqc"} =>
          \A x \in op_ret.seen.fixed :
              x \in m_fixed <=> ScopeLevel >= op_ret.seen.marks[x]

\* the second pass of fixed_length unfolds x with bounds 2, 2 into two
\* units in a scope, next to a marked skolem it leaves alone
C29_Witness ==
    /\ FixedRan /\ ~op_ret.is_zero /\ ScopeLevel > 0
    /\ VarX \in FixedCases /\ op_ret.bnds[VarX] = <<MaxFix, MaxFix>>
    /\ VarX \notin op_ret.seen.fixed /\ VarX \in m_fixed
    /\ op_ret.seen.fixed # {}

\* a pop has taken the mark of a variable away
FixedUnmarked ==
    /\ op_ret.op = "pop_scope_eh"
    /\ VarX \in op_ret.seen.fixed /\ VarX \notin m_fixed

\* check_extensionality has just run
ExtRan == op_ret.op = "check_extensionality"

\* the enode of variable v is a shared, relevant sequence enode and a root
ExtSharedRoot(v) ==
    /\ v \in op_ret.in.shared /\ v \in op_ret.in.relevant
    /\ ext_is_seq(op_ret.in.owners[v])
    /\ op_ret.in.root[v] = v

\* n1 and n2 are in different classes, not known to differ and not excluded
ExtOpenPair(v1, v2) ==
    /\ op_ret.in.root[v1] # op_ret.in.root[v2]
    /\ ~ExtIsDiseq(op_ret.in, v1, v2)
    /\ ~ExcludeContains(op_ret.exclude, op_ret.in.owners[v1], op_ret.in.owners[v2])

\* C30: check_extensionality calls assume_eq(n1, n2) only for pairs in which
\* both n1 and n2 are shared, relevant sequence enodes that are roots of
\* different classes, not known disequal and not excluded; it returns
\* false on the first such call.
C30_AssumesSharedPairs ==
    ExtRan =>
        /\ Cardinality(op_ret.assumed) <= 1
        /\ \A p \in op_ret.assumed :
              /\ ExtSharedRoot(p[1]) /\ ExtSharedRoot(p[2])
              /\ ExtOpenPair(p[1], p[2])
              /\ ~op_ret.ret

\* what check_extensionality tests: n1 is a shared, relevant sequence root;
\* n2 is an earlier root of the same sort, of which neither relevance nor
\* sharing is looked at
ExtAssumesLaterShared ==
    ExtRan =>
        /\ Cardinality(op_ret.assumed) <= 1
        /\ \A p \in op_ret.assumed :
              /\ ExtSharedRoot(p[1])
              /\ p[2] < p[1] /\ op_ret.in.root[p[2]] = p[2]
              /\ ext_is_seq(op_ret.in.owners[p[2]])
              /\ ExtOpenPair(p[1], p[2])
              /\ ~op_ret.ret

\* assume_eq(y, x) is called with x neither shared nor relevant
C30_Witness ==
    /\ ExtRan /\ op_ret.assumed = {<<2, 1>>}
    /\ op_ret.in.owners[1] = VarX /\ op_ret.in.owners[2] = VarY
    /\ 1 \notin op_ret.in.shared /\ 1 \notin op_ret.in.relevant

\* expand has just run
ExpandRan == op_ret.op = "expand"

\* the term find reaches from the term expand was called on
ExpandRoot == Find(m_map, op_ret.e0, ExpandFuel).e

\* expand met an ite at the top: the term was not cached and find leads to
\* an ite
ExpandMetIte ==
    ExpandRan /\ ~InCache(op_ret.cache, op_ret.e0) /\ is_ite(ExpandRoot)

\* C31: on an ite whose condition is true (false) expansion goes on with the
\* then (else) branch and the dependency returned holds the condition
\* literal (its negation); on an undecided condition expansion fails, the
\* condition is marked relevant, the progress flag is set and the ite term
\* gets no cache entry.
C31_IteFollowsAssignment ==
    ExpandMetIte =>
        LET c == ExpandRoot[2]
            branch(val) ==
                Exp(m_map, ExpandRoot[IF val THEN 3 ELSE 4], op_ret.cache,
                    ExpandFuel)
        IN  CASE assignment[c] = "true" ->
                   /\ op_ret.ok = branch(TRUE).ok
                   /\ op_ret.ok => /\ op_ret.e = branch(TRUE).e
                                   /\ Lit(c, TRUE) \in op_ret.d
                                   /\ InCache(m_cache, op_ret.e0)
              [] assignment[c] = "false" ->
                   /\ op_ret.ok = branch(FALSE).ok
                   /\ op_ret.ok => /\ op_ret.e = branch(FALSE).e
                                   /\ Lit(c, FALSE) \in op_ret.d
                                   /\ InCache(m_cache, op_ret.e0)
              [] OTHER ->
                   /\ ~op_ret.ok
                   /\ op_ret.relevant = {c}
                   /\ m_new_propagation
                   /\ ~InCache(m_cache, op_ret.e0)
                   /\ m_cache = op_ret.cache

\* expand has followed x to an ite with a false condition and returned the
\* else branch
C31_Witness ==
    /\ ExpandMetIte /\ op_ret.e0 = VarX /\ assignment["c1"] = "false"
    /\ op_ret.ok /\ op_ret.e = StrAB

\* expand has failed on an undecided condition below a concatenation
ExpandFailedBelow ==
    /\ ExpandRan /\ ~op_ret.ok /\ is_concat(ExpandRoot) /\ op_ret.relevant # {}

\* the leaves the expansion of e rests on: the dependencies of the map
\* entries followed and the literals of the conditions consulted, for e and
\* the sub-terms expanded; the cache is not looked at
RECURSIVE ExpandLeaves(_, _)
ExpandLeaves(e0, fuel) ==
    IF fuel = 0 THEN {}
    ELSE LET f == Find(m_map, e0, ExpandFuel)
             e == f.e
         IN  f.d \cup
             (IF is_concat(e)
              THEN ExpandLeaves(e[2], fuel - 1) \cup ExpandLeaves(e[3], fuel - 1)
              ELSE IF is_ite(e)
              THEN CASE assignment[e[2]] = "true" ->
                          {Lit(e[2], TRUE)} \cup ExpandLeaves(e[3], fuel - 1)
                     [] assignment[e[2]] = "false" ->
                          {Lit(e[2], FALSE)} \cup ExpandLeaves(e[4], fuel - 1)
                     [] OTHER -> {}
              ELSE {})

\* C39: the dependency expand returns for e holds the dependency of every
\* map entry followed and the literal of every condition consulted, for e
\* and its expanded sub-terms, also when the result or a part of it comes
\* from the cache.
C39_DependencyComplete ==
    (ExpandRan /\ op_ret.ok) =>
        ExpandLeaves(op_ret.e0, ExpandFuel) \subseteq op_ret.d

\* expand has built a result with a dependency from a cached sub-term
C39_Witness ==
    /\ ExpandRan /\ op_ret.ok /\ is_concat(op_ret.e0)
    /\ ~InCache(op_ret.cache, op_ret.e0)
    /\ \E c \in op_ret.cache : c.d # {} /\ c.v \in {op_ret.e0[2], op_ret.e0[3]}
    /\ op_ret.d # {}

\* solve_itos has just run
ItosRan == op_ret.op = "solve_itos"

\* the sum of digit2int(u_j) * 10^(k - j) over the k units of ds
RECURSIVE Pow10(_)
Pow10(n) == IF n = 0 THEN 1 ELSE 10 * Pow10(n - 1)
RECURSIVE DigitSum(_, _)
DigitSum(ds, j) ==
    IF j > Len(ds) THEN 0
    ELSE digit2int(ds[j]) * Pow10(Len(ds) - j) + DigitSum(ds, j + 1)

\* C32: on itos(i) = empty solve_itos propagates i < 0; on itos(i) = units
\* it propagates is_digit of each unit, once per scope (not for a unit
\* recorded in m_is_digit, nor for one whose literal is true already) and
\* i = the sum of digit2int(u_j) * 10^(k - j); with an element that is no
\* unit it returns false and propagates no equation for i.  A unit stays
\* recorded until the scope in which it was recorded is popped.
C32_ItosPropagations ==
    /\ ItosRan =>
          LET rs == op_ret.arg
              units == {rs[j] : j \in {i \in 1..Len(rs) : is_unit(rs[i])}}
          IN  /\ rs = <<>> => op_ret.ret /\ op_ret.lits = {[k |-> "le", c |-> -1]}
              /\ \A u \in units :
                    /\ [k |-> "is_digit", u |-> u] \in op_ret.lits
                          <=> (u \notin op_ret.digs /\ u \notin op_ret.known)
                    /\ u \in m_is_digit
              /\ (rs # <<>> /\ units = Range(rs)) =>
                    /\ op_ret.ret
                    /\ \E l \in op_ret.lits :
                          l.k = "eq" /\ l.ds = rs /\ Horner(l.ds) = DigitSum(rs, 1)
              /\ units # Range(rs) =>
                    ~op_ret.ret /\ \A l \in op_ret.lits : l.k # "eq"
    /\ op_ret.op \in {"solve_itos", "push_scope_eh", "pop_scope_eh"} =>
          \A u \in op_ret.digs :
              u \in m_is_digit <=>
                  (op_ret.op # "pop_scope_eh" \/ ScopeLevel >= op_ret.marks[u])

\* solve_itos runs in an open scope on two units, the first recorded before
\* the scope was pushed, the second not recorded
C32_Witness ==
    /\ ItosRan /\ Len(op_ret.arg) = 2 /\ op_ret.ret
    /\ op_ret.arg[1] \in op_ret.digs /\ op_ret.arg[2] \notin op_ret.digs
    /\ Len(m_trail_lim) > 0
    /\ \E p \in 1..Len(m_trail_stack) :
          /\ m_trail_stack[p].k = "erase_is_digit"
          /\ m_trail_stack[p].a = op_ret.arg[1]
          /\ p <= m_trail_lim[1]

\* a pop has taken a unit out of m_is_digit
ItosForgotten ==
    op_ret.op = "pop_scope_eh" /\ op_ret.digs # m_is_digit

\* get_length has just run
LengthRan == op_ret.op = "get_length"

\* the integer assignments the literals and lengths are evaluated in: the
\* length n of x and the values of i and l
LengthAssignments == [n : 0..MaxLen, i : -2..(MaxLen + 1), l : -2..(MaxLen + 1)]

\* the value of an integer term
RECURSIVE EvalInt(_, _)
EvalInt(t, a) ==
    CASE t[1] = "num" -> t[2]
      [] t[1] = "ivar" -> IF t[2] = "i" THEN a.i ELSE a.l
      [] t[1] = "len" -> a.n
      [] t[1] = "sub" -> EvalInt(t[2], a) - EvalInt(t[3], a)

LengthLitHolds(lit, a) ==
    IF lit.atom.k = "true" THEN lit.sign
    ELSE lit.sign <=> (EvalInt(lit.atom.t, a) >= lit.atom.n)

\* the length of the piece of a sequence of length n that starts at
\* position i and has at most l elements
ExtractLen(n, i, l) ==
    IF 0 <= i /\ i < n /\ l > 0 THEN (IF l < n - i THEN l ELSE n - i) ELSE 0

\* the length of a sequence term: at is the piece of length 1, pre(s, i) the
\* prefix of length i, post(s, i) the suffix from position i, tail(s, l) the
\* suffix from position l + 1
TrueLength(e, a) ==
    CASE e[1] = "unit" -> 1
      [] e[1] = "extract" -> ExtractLen(a.n, EvalInt(e[3], a), EvalInt(e[4], a))
      [] e[1] = "at" -> ExtractLen(a.n, EvalInt(e[3], a), 1)
      [] e[1] = "sk" /\ e[2] = "seq.pre" -> ExtractLen(a.n, 0, EvalInt(e[4], a))
      [] e[1] = "sk" /\ e[2] = "seq.post" ->
            ExtractLen(a.n, EvalInt(e[4], a), a.n - EvalInt(e[4], a))
      [] e[1] = "sk" /\ e[2] = "seq.tail" ->
            ExtractLen(a.n, EvalInt(e[4], a) + 1, a.n - EvalInt(e[4], a) - 1)
      [] OTHER -> a.n

\* the assignments in which every literal get_length returned holds
LengthModels ==
    {a \in LengthAssignments :
        \A k \in 1..Len(op_ret.lits) : LengthLitHolds(op_ret.lits[k], a)}

\* C34: whenever get_length succeeds, the length of e equals len in every
\* integer assignment in which all returned literals hold, for unit, at,
\* pre, post, substr and tail, for every integer l, negative values
\* included.
C34_LengthSound ==
    (LengthRan /\ op_ret.ok) =>
        \A a \in LengthModels : TrueLength(op_ret.e, a) = EvalInt(op_ret.len, a)

\* the same without the assignments that give tail an l below -1
LengthSoundFromMinusOne ==
    (LengthRan /\ op_ret.ok) =>
        \A a \in LengthModels :
            (op_ret.e[2] = "seq.tail" => a.l >= -1)
                => TrueLength(op_ret.e, a) = EvalInt(op_ret.len, a)

\* get_length has given tail(x, l) the length |x| - l - 1
C34_Witness ==
    /\ LengthRan /\ op_ret.ok /\ op_ret.e = mk_tail_at(VarX, IntL)
    /\ op_ret.len = mk_sub(mk_sub(mk_length(VarX), IntL), mk_int(1))

\* reduce_length_eq has just run
RlRan == op_ret.op = "reduce_length_eq"

\* what is left of a side after a segment at its front or back was taken
RlRemaining(side, seg, front) ==
    IF front THEN SeqFrom(side, Len(seg)) ELSE SeqUpTo(side, Len(side) - Len(seg))

\* call c of reduce_length equates the segments that were summed, and the
\* residual it builds is the rest of each side
RlCallMatches(c) ==
    LET lseg == IF c.left THEN c.big ELSE c.summed
        rseg == IF c.left THEN c.summed ELSE c.big
    IN  /\ c.seg.l = lseg /\ c.seg.r = rseg
        /\ c.seg.lhs = RlRemaining(op_ret.ls, lseg, c.front)
        /\ c.seg.rhs = RlRemaining(op_ret.rs, rseg, c.front)

\* C33: in each of the four numeric-length cases of reduce_length_eq the
\* two segments handed to reduce_length are exactly the segments whose
\* summed lengths were found equal (in a suffix case the last element of
\* one side and the trailing elements of the other side that were summed),
\* and the residual equation that is enqueued is the rest of each side.
C33_SegmentsAreSummed ==
    RlRan =>
        \A k \in 1..Len(op_ret.calls) :
            /\ RlCallMatches(op_ret.calls[k])
            /\ op_ret.calls[k].ret =>
                  m_eqs[Len(m_eqs)] = [ls |-> op_ret.calls[k].seg.lhs,
                                       rs |-> op_ret.calls[k].seg.rhs]

\* the prefix cases do equate what was summed; a suffix case does when the
\* number of summed elements is the number of elements before them
RlPrefixSegmentsAreSummed ==
    RlRan =>
        \A k \in 1..Len(op_ret.calls) :
            LET c == op_ret.calls[k]
                side == IF c.left THEN op_ret.rs ELSE op_ret.ls
            IN  (c.front \/ 2 * Len(c.summed) = Len(side)) => RlCallMatches(c)

\* a suffix case has enqueued a residual after summing two elements of a
\* side of three
C33_Witness ==
    /\ RlRan /\ op_ret.ret /\ Len(op_ret.calls) > 0
    /\ LET c == op_ret.calls[Len(op_ret.calls)]
       IN  ~c.front /\ Len(c.summed) = 2 /\ Len(c.seg.r) = 1

\* the residual of the call that has just reported progress
RlResidual == m_eqs[Len(m_eqs)]
RlPresent(eq) == \E k \in 1..Len(op_ret.before) : op_ret.before[k] = eq
RlNumericResidual(c) == [ls |-> c.seg.lhs, rs |-> c.seg.rhs]

\* C35: no call of reduce_length_eq adds to the store an equation whose
\* sides are those of an equation already present; when the residual is
\* already present the call reports no progress and leaves the store
\* unchanged.
C35_NoDuplicateResidual ==
    RlRan =>
        /\ op_ret.ret => ~RlPresent(RlResidual)
        /\ ~op_ret.ret => m_eqs = op_ret.before

\* C35 as amended: a numeric-length case never adds an equation already in
\* the store, and a call that ends without progress leaves the store
\* unchanged; the two cases that compare symbolic lengths of the first or
\* last elements push their residual whether or not it is present.
C35_NoDuplicateFromNumericCases ==
    RlRan =>
        /\ (op_ret.ret /\ op_ret.calls # <<>>) =>
              /\ ~RlPresent(RlResidual)
              /\ m_eqs = Append(op_ret.before, RlResidual)
        /\ \A k \in 1..Len(op_ret.calls) :
              RlPresent(RlNumericResidual(op_ret.calls[k])) => ~op_ret.calls[k].ret
        /\ (op_ret.ret /\ op_ret.calls = <<>>) =>
              /\ m_eqs = Append(op_ret.before, RlResidual)
              /\ RlResidual \in
                    {[ls |-> SeqFrom(op_ret.ls, 1), rs |-> SeqFrom(op_ret.rs, 1)],
                     [ls |-> SeqUpTo(op_ret.ls, Len(op_ret.ls) - 1),
                      rs |-> SeqUpTo(op_ret.rs, Len(op_ret.rs) - 1)]}
        /\ ~op_ret.ret => m_eqs = op_ret.before

\* a numeric-length case has found its residual in the store and the call
\* has ended without progress
C35_Witness ==
    /\ RlRan /\ ~op_ret.ret
    /\ \E k \in 1..Len(op_ret.calls) : RlPresent(RlNumericResidual(op_ret.calls[k]))

\* a symbolic case has pushed an equation that was in the store
RlSymbolicDuplicate ==
    RlRan /\ op_ret.ret /\ op_ret.calls = <<>> /\ RlPresent(RlResidual)

C37_ModelLeavesMap ==
    op_ret.op = "finalize_model" => \A k \in Keys : m_map[k] = op_ret.before[k]

\* finalize_model has taken back a model in which an entry that existed
\* before init_model was overwritten and a term without an entry got one
C37_Witness ==
    /\ op_ret.op = "finalize_model"
    /\ \E k \in Keys : HasEntry(op_ret.before, k) /\ op_ret.built[k] # op_ret.before[k]
    /\ \E k \in Keys : ~HasEntry(op_ret.before, k) /\ HasEntry(op_ret.built, k)

\* the unordered pairs a table holds
ExcludePairs(table) == {{p[1], p[2]} : p \in table}

\* C38: the exclusion table is an unordered, scoped set: contains(a, b) =
\* contains(b, a); update(a, a) records nothing; after update(a, b) with
\* different terms the pair is contained; and after a pop the pairs
\* contained are those contained at the matching push, so a pair of an
\* outer scope stays contained when it was recorded again, in either order,
\* inside the popped scope, and a pair first recorded inside is no longer
\* contained.
C38_ExclusionTable ==
    /\ \A a \in ExcludeTerms, b \in ExcludeTerms :
          /\ ExcludeContains(m_exclude, a, b) = ExcludeContains(m_exclude, b, a)
          /\ ExcludeContains(m_exclude, a, b) <=> {a, b} \in ExcludePairs(m_exclude.table)
          /\ ~ExcludeContains(m_exclude, a, a)
    /\ (op_ret.op = "update" /\ op_ret.e = op_ret.r) =>
          m_exclude.table = op_ret.table0 /\ m_exclude.lhs = op_ret.lhs0
    /\ (op_ret.op = "update" /\ op_ret.e # op_ret.r) =>
          /\ ExcludeContains(m_exclude, op_ret.e, op_ret.r)
          /\ ExcludePairs(m_exclude.table) =
                ExcludePairs(op_ret.table0) \cup {{op_ret.e, op_ret.r}}
    /\ op_ret.op = "pop_scope_eh" =>
          \A a \in ExcludeTerms, b \in ExcludeTerms :
              ExcludeContains(m_exclude, a, b) <=> {a, b} \in ExcludePairs(op_ret.at_push)

\* a scope has been popped in which a pair of the outer scope was recorded
\* again in the other order and another pair was recorded first
C38_Witness ==
    /\ op_ret.op = "pop_scope_eh"
    /\ \E p \in op_ret.again :
          /\ <<p[2], p[1]>> \in op_ret.at_push
          /\ ExcludeContains(m_exclude, p[1], p[2])
    /\ \E p \in op_ret.table0 : ~ExcludeContains(m_exclude, p[1], p[2])

\* should_research has just run
Researched == op_ret.op = "should_research"

\* C40: the unfolding depth starts at 1; whenever should_research returns
\* true the depth is strictly greater than before the call, whenever it
\* returns false neither the depth nor any recorded length limit has
\* changed, and it returns false when the core has neither a max_unfolding
\* nor a length_limit literal.
C40_ResearchRaisesDepth ==
    /\ m_max_unfolding_depth >= InitialUnfoldingDepth
    /\ Researched =>
          /\ op_ret.ret => m_max_unfolding_depth > op_ret.d0
          /\ ~op_ret.ret =>
                /\ m_max_unfolding_depth = op_ret.d0
                /\ m_length_limit_map = op_ret.map0
          /\ (CoreLimits(op_ret.core) = {}
              /\ ~\E l \in op_ret.core : l.k = "max_unfolding") => ~op_ret.ret

\* should_research has returned true at the initial depth on a core whose
\* only skolem literal is max_unfolding
C40_Witness ==
    /\ Researched /\ op_ret.ret
    /\ op_ret.d0 = InitialUnfoldingDepth
    /\ CoreLimits(op_ret.core) = {}
    /\ m_max_unfolding_depth = InitialUnfoldingDepth + 1

\* should_research has returned false on a core of user assumptions
ResearchDeclined ==
    Researched /\ ~op_ret.ret /\ op_ret.core # {}

====
